---- MODULE Spec2Model ----
(***************************************************************************)
(* A model of the streaming XML tokenizer of crates/xml: the byte stream   *)
(* with push-back (read/bytes.rs), the grammar functions and the document  *)
(* state machine (read.rs) and the internal-subset grammar                 *)
(* (read/doctype.rs).  Bytes are integers 0..255, strings are sequences of *)
(* bytes.  The reader is an in-memory byte slice, as in the crate's tests, *)
(* so the source never reports an I/O error.  The crate is modelled with   *)
(* its default features: DTD parsing on, no custom entities.               *)
(***************************************************************************)
EXTENDS Integers, Sequences, FiniteSets, TLC

VARIABLES input, parser, out, item, reader, got

vars == <<input, parser, out, item, reader, got>>

(***************************************************************************)
(* Byte literals of the source.                                            *)
(***************************************************************************)
LT == 60
GT == 62
SLASH == 47
QUESTION == 63
BANG == 33
DASH == 45
LBRACKET == 91
RBRACKET == 93
AMP == 38
HASH == 35
SEMI == 59
PERCENT == 37
EQUALS == 61
APOS == 39
QUOT == 34
SPACE == 32
TAB == 9
CR == 13
LF == 10
UNDERSCORE == 95
COLON == 58
DOT == 46
PLUS == 43
LOWER_X == 120
LOWER_E == 101
LOWER_S == 115
UPPER_S == 83
UPPER_P == 80
NAME_ASCII_LIMIT == 128
BOM_EF == 239
BOM_BB == 187
BOM_BF == 191
BOM_00 == 0
BOM_FE == 254
BOM_FF == 255
CHAR_MAX == 1114111
SURROGATE_LO == 55296
SURROGATE_HI == 57343
HALF_WORD == 65536

UpperAZ == 65..90
LowerAZ == 97..122
Digits09 == 48..57

(* String literals of the source, as byte sequences. *)
S_xml == <<120, 109, 108>>
S_version == <<118, 101, 114, 115, 105, 111, 110>>
S_ncoding == <<110, 99, 111, 100, 105, 110, 103>>
S_tandalone == <<116, 97, 110, 100, 97, 108, 111, 110, 101>>
S_utf8 == <<117, 116, 102, 45, 56>>
S_yes == <<121, 101, 115>>
S_no == <<110, 111>>
S_DOCTYPE == <<68, 79, 67, 84, 89, 80, 69>>
S_CDATA == <<67, 68, 65, 84, 65, 91>>
S_YSTEM == <<89, 83, 84, 69, 77>>
S_UBLIC == <<85, 66, 76, 73, 67>>
S_ENTITY == <<69, 78, 84, 73, 84, 89>>
S_ELEMENT == <<69, 76, 69, 77, 69, 78, 84>>
S_ATTLIST == <<65, 84, 84, 76, 73, 83, 84>>
S_NOTATION == <<78, 79, 84, 65, 84, 73, 79, 78>>
S_lt == <<108, 116>>
S_gt == <<103, 116>>
S_amp == <<97, 109, 112>>
S_apos == <<97, 112, 111, 115>>
S_quot == <<113, 117, 111, 116>>
S_PIEnd == <<63, 62>>
S_CDEnd == <<93, 93, 62>>

(***************************************************************************)
(* Vec<u8> helpers.                                                        *)
(***************************************************************************)
ends_with(buf, s) ==
    /\ Len(buf) >= Len(s)
    /\ SubSeq(buf, Len(buf) - Len(s) + 1, Len(buf)) = s

truncate(buf, n) == SubSeq(buf, 1, n)

starts_with(buf, s) ==
    /\ Len(buf) >= Len(s)
    /\ SubSeq(buf, 1, Len(s)) = s

(***************************************************************************)
(* read/bytes.rs: the byte stream.  iter is the pair (src, pos): the bytes *)
(* of the reader and the index of the next one.  last_byte = -1 is None.   *)
(***************************************************************************)
NoByte == -1

from_reader(src) ==
    [src |-> src, pos |-> 1, last_byte |-> NoByte, newline |-> FALSE,
     line |-> 1, buf |-> <<>>]

(* Bytes::next without the arm that skips the `\n` of a `\r\n` pair: the   *)
(* variant the newline properties are tested against.                      *)
Bytes_next_no_skip(b) ==
    IF b.buf # <<>>
    THEN [b |-> b.buf[Len(b.buf)], s |-> [b EXCEPT !.buf = SubSeq(@, 1, Len(@) - 1)]]
    ELSE IF b.pos > Len(b.src)
    THEN [b |-> NoByte,
          s |-> [b EXCEPT !.newline = FALSE,
                          !.line = IF b.newline THEN @ + 1 ELSE @]]
    ELSE IF b.src[b.pos] = CR \/ b.src[b.pos] = LF
    THEN [b |-> LF,
          s |-> [b EXCEPT !.pos = @ + 1, !.newline = TRUE,
                          !.line = IF b.newline THEN @ + 1 ELSE @,
                          !.last_byte = b.src[b.pos]]]
    ELSE [b |-> b.src[b.pos],
          s |-> [b EXCEPT !.pos = @ + 1, !.newline = FALSE,
                          !.line = IF b.newline THEN @ + 1 ELSE @,
                          !.last_byte = b.src[b.pos]]]


RECURSIVE Bytes_next_count_pushed(_)
(* Bytes::next counting a line for a `\n` that it takes from the pushed    *)
(* bytes.                                                                  *)
Bytes_next_count_pushed(b) ==
    IF b.buf # <<>>
    THEN [b |-> b.buf[Len(b.buf)],
          s |-> [b EXCEPT !.buf = SubSeq(@, 1, Len(@) - 1),
                          !.line = IF b.buf[Len(b.buf)] = LF THEN @ + 1 ELSE @]]
    ELSE LET b1 == IF b.newline
                   THEN [b EXCEPT !.newline = FALSE, !.line = @ + 1]
                   ELSE b
         IN  IF b1.pos > Len(b1.src)
             THEN [b |-> NoByte, s |-> b1]
             ELSE LET c == b1.src[b1.pos]
                      b2 == [b1 EXCEPT !.pos = @ + 1]
                  IN  IF c = LF /\ b1.last_byte = CR
                      THEN Bytes_next_count_pushed([b2 EXCEPT !.last_byte = LF])
                      ELSE IF c = CR \/ c = LF
                      THEN [b |-> LF, s |-> [b2 EXCEPT !.newline = TRUE, !.last_byte = c]]
                      ELSE [b |-> c, s |-> [b2 EXCEPT !.last_byte = c]]

RECURSIVE Bytes_next(_)
Bytes_next(b) ==
    IF b.buf # <<>>
    THEN [b |-> b.buf[Len(b.buf)], s |-> [b EXCEPT !.buf = SubSeq(@, 1, Len(@) - 1)]]
    ELSE LET b1 == IF b.newline
                   THEN [b EXCEPT !.newline = FALSE, !.line = @ + 1]
                   ELSE b
         IN  IF b1.pos > Len(b1.src)
             THEN [b |-> NoByte, s |-> b1]
             ELSE LET c == b1.src[b1.pos]
                      b2 == [b1 EXCEPT !.pos = @ + 1]
                  IN  IF c = LF /\ b1.last_byte = CR
                      THEN Bytes_next([b2 EXCEPT !.last_byte = LF])
                      ELSE IF c = CR \/ c = LF
                      THEN [b |-> LF, s |-> [b2 EXCEPT !.newline = TRUE, !.last_byte = c]]
                      ELSE [b |-> c, s |-> [b2 EXCEPT !.last_byte = c]]

location(b) == b.line

(* unget putting the byte under the bytes pushed before it. *)
unget_under(b, byte) == [b EXCEPT !.buf = <<byte>> \o @]

unget(b, byte) == [b EXCEPT !.buf = Append(@, byte)]

RECURSIVE unget_buf(_, _)
unget_buf(b, buf) ==
    IF buf = <<>> THEN b
    ELSE unget_buf(unget(b, buf[Len(buf)]), SubSeq(buf, 1, Len(buf) - 1))

(***************************************************************************)
(* Values.  Tokens are records of one shape so that any two of them can be *)
(* compared: StartTag uses name and attrs, EndTag name, CharData text,     *)
(* ProcInst name (the target) and text (the instruction), DoctypeDef dt.   *)
(***************************************************************************)
RawTok(type, name, attrs, text, dt) ==
    [type |-> type, name |-> name, attrs |-> attrs, text |-> text, dt |-> dt]

NoToken == RawTok("None", <<>>, <<>>, <<>>, "")

Public(t) == RawTok(t.type, t.name, t.attrs, t.text, "")

EndOfFile == RawTok("EndOfFile", <<>>, <<>>, <<>>, "")

NoName == [some |-> FALSE, v |-> <<>>]

SomeName(n) == [some |-> TRUE, v |-> n]

Attr(name, value) == [name |-> name, value |-> value]

(* xml::Result<T>: err = "" is Ok(v); p is the parser after the call. *)
Ok(v, p) == [err |-> "", v |-> v, p |-> p]

Err(e, p) == [err |-> e, v |-> 0, p |-> p]

from_reader_parser(src) ==
    [bytes |-> from_reader(src), state |-> "Begin", last_token |-> NoToken,
     tags |-> <<>>, auto_close |-> NoName]

(***************************************************************************)
(* The `?` operator: an error returns from the function at once, a value   *)
(* goes on to the rest of it.  `let x = f()?; rest` is written             *)
(*     Bind(f(p), LAMBDA x, q : rest)                                      *)
(* where q is the parser after the call.                                   *)
(***************************************************************************)
Bind(r, K(_, _)) == IF r.err # "" THEN r ELSE K(r.v, r.p)

(* `if !(r?) { return Err(err) }`, the body of the require_* macros. *)
Require(r, err) ==
    Bind(r, LAMBDA v, q : IF ~v THEN Err(err, q) ELSE Ok(TRUE, q))

(***************************************************************************)
(* read.rs: the read::Bytes wrapper functions.                             *)
(***************************************************************************)
next_byte_match(r, p) ==
    IF r.b = NoByte
    THEN Err("UnexpectedEof", [p EXCEPT !.bytes = r.s])
    ELSE Ok(r.b, [p EXCEPT !.bytes = r.s])

next_byte(p) == next_byte_match(Bytes_next(p.bytes), p)

unget_byte(p, b) == [p EXCEPT !.bytes = unget(@, b)]

next_byte_is(p, b) == Bind(next_byte(p), LAMBDA v, q : Ok(v = b, q))

RECURSIVE read_until(_, _)
read_until(p, delim) ==
    Bind(next_byte(p), LAMBDA v, q :
        IF v # delim THEN read_until(q, delim) ELSE Ok(TRUE, q))

require_byte(p, b, err) == Require(next_byte_is(p, b), err)

RECURSIVE expect_str(_, _)
expect_str(p, s) ==
    IF s = <<>> THEN Ok(TRUE, p)
    ELSE Bind(next_byte_is(p, Head(s)), LAMBDA v, q :
             IF ~v THEN Ok(FALSE, q) ELSE expect_str(q, Tail(s)))

require_str(p, s, err) == Require(expect_str(p, s), err)

RECURSIVE whitespace_loop(_, _)
whitespace_loop(p, skipped) ==
    Bind(next_byte(p), LAMBDA v, q :
        IF v \in {SPACE, TAB, CR, LF} THEN whitespace_loop(q, TRUE)
        ELSE Ok(skipped, unget_byte(q, v)))

whitespace(p) == whitespace_loop(p, FALSE)

require_whitespace(p, err) == Require(whitespace(p), err)

equals(p) ==
    Bind(whitespace(p), LAMBDA v1, p1 :
    Bind(require_byte(p1, EQUALS, "MalformedEq"), LAMBDA v2, p2 :
    Bind(whitespace(p2), LAMBDA v3, p3 : Ok(TRUE, p3))))

(***************************************************************************)
(* String::from_utf8: whether the bytes are well-formed UTF-8 (the         *)
(* standard library's validation: no overlong form, no surrogate, at most  *)
(* U+10FFFF).                                                              *)
(***************************************************************************)
IsCont(buf, i, lo, hi) == i <= Len(buf) /\ buf[i] >= lo /\ buf[i] <= hi

RECURSIVE utf8_valid_from(_, _)
utf8_valid_from(buf, i) ==
    IF i > Len(buf) THEN TRUE
    ELSE LET c == buf[i]
         IN  IF c < 128 THEN utf8_valid_from(buf, i + 1)
             ELSE IF c >= 194 /\ c <= 223
             THEN IsCont(buf, i + 1, 128, 191) /\ utf8_valid_from(buf, i + 2)
             ELSE IF c >= 224 /\ c <= 239
             THEN /\ IsCont(buf, i + 1, IF c = 224 THEN 160 ELSE 128,
                                        IF c = 237 THEN 159 ELSE 191)
                  /\ IsCont(buf, i + 2, 128, 191)
                  /\ utf8_valid_from(buf, i + 3)
             ELSE IF c >= 240 /\ c <= 244
             THEN /\ IsCont(buf, i + 1, IF c = 240 THEN 144 ELSE 128,
                                        IF c = 244 THEN 143 ELSE 191)
                  /\ IsCont(buf, i + 2, 128, 191)
                  /\ IsCont(buf, i + 3, 128, 191)
                  /\ utf8_valid_from(buf, i + 4)
             ELSE FALSE

from_utf8(buf, p) ==
    IF utf8_valid_from(buf, 1) THEN Ok(buf, p) ELSE Err("Utf8Error", p)

(* char::encode_utf8 of a code point that char::from_u32 accepted. *)
encode_utf8(c) ==
    IF c < 128 THEN <<c>>
    ELSE IF c < 2048 THEN <<192 + (c \div 64), 128 + (c % 64)>>
    ELSE IF c < 65536
    THEN <<224 + (c \div 4096), 128 + ((c \div 64) % 64), 128 + (c % 64)>>
    ELSE <<240 + (c \div 262144), 128 + ((c \div 4096) % 64),
           128 + ((c \div 64) % 64), 128 + (c % 64)>>

(* char::to_digit: the value of a digit in the radix, -1 when it has none. *)
to_digit(b, radix) ==
    LET d == IF b \in Digits09 THEN b - 48
             ELSE IF b \in LowerAZ THEN b - 97 + 10
             ELSE IF b \in UpperAZ THEN b - 65 + 10
             ELSE -1
    IN  IF d >= 0 /\ d < radix THEN d ELSE -1

(* u32::from_str_radix.  A u32 is the pair (hi, lo) of its 16-bit halves,  *)
(* so that the overflow past 2^32 - 1 is exact; ok = FALSE stands for Err   *)
(* (empty, invalid digit, overflow).                                        *)
U32(ok, hi, lo) == [ok |-> ok, hi |-> hi, lo |-> lo]

RECURSIVE from_str_digits(_, _, _)
from_str_digits(s, radix, acc) ==
    IF s = <<>> THEN acc
    ELSE LET d == to_digit(Head(s), radix)
             lo == acc.lo * radix + d
             hi == acc.hi * radix + (lo \div HALF_WORD)
         IN  IF d < 0 THEN U32(FALSE, 0, 0)
             ELSE IF hi >= HALF_WORD THEN U32(FALSE, 0, 0)
             ELSE from_str_digits(Tail(s), radix, U32(TRUE, hi, lo % HALF_WORD))

from_str_radix(s, radix) ==
    IF s = <<>> THEN U32(FALSE, 0, 0)
    ELSE IF Head(s) \in {PLUS, DASH} /\ Len(s) = 1 THEN U32(FALSE, 0, 0)
    ELSE IF Head(s) = PLUS THEN from_str_digits(Tail(s), radix, U32(TRUE, 0, 0))
    ELSE from_str_digits(s, radix, U32(TRUE, 0, 0))

(* char::from_u32: whether the value is a Unicode scalar value. *)
from_u32_ok(v) ==
    /\ v.hi * HALF_WORD + v.lo <= CHAR_MAX
    /\ ~(v.hi = 0 /\ v.lo >= SURROGATE_LO /\ v.lo <= SURROGATE_HI)

code_point(v) == v.hi * HALF_WORD + v.lo

(***************************************************************************)
(* read.rs: parsing helpers.                                               *)
(***************************************************************************)
IsNameByte(b) ==
    \/ b \in UpperAZ
    \/ b \in LowerAZ
    \/ b \in Digits09
    \/ b \in {UNDERSCORE, COLON, DOT, DASH}

RECURSIVE name_loop(_, _)
name_loop(p, buf) ==
    Bind(next_byte(p), LAMBDA v, q :
        IF IsNameByte(v) THEN name_loop(q, Append(buf, v))
        ELSE IF v <= NAME_ASCII_LIMIT THEN Ok(buf, unget_byte(q, v))
        ELSE name_loop(q, Append(buf, v)))

name(p) ==
    Bind(name_loop(p, <<>>), LAMBDA buf, q :
        IF buf = <<>> THEN Err("MalformedName", q) ELSE from_utf8(buf, q))

to_ascii_lowercase(b) == IF b \in UpperAZ THEN b + 32 ELSE b

has_xml_prefix(target) ==
    IF Len(target) >= 3
    THEN \A i \in 1..3 : to_ascii_lowercase(target[i]) = S_xml[i]
    ELSE FALSE

RECURSIVE system_literal_loop(_, _, _)
system_literal_loop(p, quote, buf) ==
    Bind(next_byte(p), LAMBDA v, q :
        IF v = quote THEN from_utf8(buf, q)
        ELSE system_literal_loop(q, quote, Append(buf, v)))

system_literal(p) ==
    Bind(next_byte(p), LAMBDA v, q :
        IF v \in {APOS, QUOT} THEN system_literal_loop(q, v, <<>>)
        ELSE Err("MalformedSystemLiteral", q))

pubid_literal(p) == system_literal(p)

encoding_literal(p) == system_literal(p)

version_parse(n, q) ==
    IF ~n.ok THEN Err("MalformedVersionLiteral", q) ELSE Ok(n, q)

version_literal(p) ==
    Bind(system_literal(p), LAMBDA v, q :
        IF ~starts_with(v, <<49, 46>>) THEN Err("MalformedVersionLiteral", q)
        ELSE version_parse(from_str_radix(SubSeq(v, 3, Len(v)), 10), q))

yesno_literal(p) ==
    Bind(system_literal(p), LAMBDA v, q :
        IF v = S_yes THEN Ok(TRUE, q)
        ELSE IF v = S_no THEN Ok(FALSE, q)
        ELSE Err("MalformedYesNoLiteral", q))

(***************************************************************************)
(* read.rs: reference expansion.  The buffer travels as the value v.       *)
(***************************************************************************)
char_ref_push(n, buf, q) ==
    IF ~n.ok THEN Err("MalformedCharRef", q)
    ELSE IF ~from_u32_ok(n) THEN Err("MalformedCharRef", q)
    ELSE Ok(buf \o encode_utf8(code_point(n)), q)

char_ref(p, buf, radix) ==
    Bind(name(p), LAMBDA n, p1 :
    Bind(require_byte(p1, SEMI, "MalformedCharRef"), LAMBDA v2, p2 :
        char_ref_push(from_str_radix(n, radix), buf, p2)))

predefined_entity(n) ==
    IF n = S_lt THEN LT
    ELSE IF n = S_gt THEN GT
    ELSE IF n = S_amp THEN AMP
    ELSE IF n = S_apos THEN APOS
    ELSE IF n = S_quot THEN QUOT
    ELSE NoByte

entity_ref(p, buf) ==
    Bind(name(p), LAMBDA n, p1 :
    Bind(require_byte(p1, SEMI, "MalformedEntityRef"), LAMBDA v2, p2 :
        IF predefined_entity(n) # NoByte
        THEN Ok(Append(buf, predefined_entity(n)), p2)
        ELSE Err("UnmappedEntityRef", p2)))

(* The `&` arm shared by expanded_text and entity_value: `&` has been read. *)
reference(p, buf, entity_refs) ==
    Bind(next_byte(p), LAMBDA v, q :
        IF v = HASH
        THEN Bind(next_byte(q), LAMBDA v2, q2 :
                 IF v2 = LOWER_X THEN char_ref(q2, buf, 16)
                 ELSE char_ref(unget_byte(q2, v2), buf, 10))
        ELSE IF entity_refs THEN entity_ref(unget_byte(q, v), buf)
        ELSE Ok(buf \o <<AMP, v>>, q))

RECURSIVE expanded_text_loop_any(_, _, _, _)
(* The loop of expanded_text without the test for `]]>`. *)
expanded_text_loop_any(p, mode, delim, buf) ==
    Bind(next_byte(p), LAMBDA v, q :
        IF v = delim
        THEN from_utf8(buf, IF mode = "CharData" THEN unget_byte(q, v) ELSE q)
        ELSE IF v = LT /\ mode = "AttValue" THEN Err("MalformedAttValue", q)
        ELSE IF v = AMP
        THEN Bind(reference(q, buf, mode \in {"CharData", "AttValue"}),
                  LAMBDA buf2, q2 : expanded_text_loop_any(q2, mode, delim, buf2))
        ELSE IF v = PERCENT /\ mode = "EntityValue"
        THEN Err("UnsupportedFeature(ParameterEntities)", q)
        ELSE expanded_text_loop_any(q, mode, delim, Append(buf, v)))

RECURSIVE expanded_text_loop(_, _, _, _)
expanded_text_loop(p, mode, delim, buf) ==
    Bind(next_byte(p), LAMBDA v, q :
        IF v = delim
        THEN from_utf8(buf, IF mode = "CharData" THEN unget_byte(q, v) ELSE q)
        ELSE IF v = LT /\ mode = "AttValue" THEN Err("MalformedAttValue", q)
        ELSE IF v = AMP
        THEN Bind(reference(q, buf, mode \in {"CharData", "AttValue"}),
                  LAMBDA buf2, q2 : expanded_text_loop(q2, mode, delim, buf2))
        ELSE IF v = PERCENT /\ mode = "EntityValue"
        THEN Err("UnsupportedFeature(ParameterEntities)", q)
        ELSE IF mode = "CharData" /\ ends_with(Append(buf, v), S_CDEnd)
        THEN Err("MalformedCharData", q)
        ELSE expanded_text_loop(q, mode, delim, Append(buf, v)))

expanded_text(p, mode) ==
    IF mode = "CharData" THEN expanded_text_loop(p, mode, LT, <<>>)
    ELSE Bind(next_byte(p), LAMBDA v, q :
             IF v \in {APOS, QUOT} THEN expanded_text_loop(q, mode, v, <<>>)
             ELSE IF mode = "AttValue" THEN Err("MalformedAttValue", q)
             ELSE Err("MalformedEntityValue", q))

(* att_value reading the value as an entity value is read. *)
att_value_unexpanded(p) == expanded_text(p, "EntityValue")

att_value(p) == expanded_text(p, "AttValue")

attr(p) ==
    Bind(name(p), LAMBDA n, p1 :
    Bind(equals(p1), LAMBDA v2, p2 :
    Bind(att_value(p2), LAMBDA value, p3 : Ok(Attr(n, value), p3))))

(***************************************************************************)
(* read.rs: the token parsing functions.                                   *)
(***************************************************************************)
RECURSIVE comment_loop_lenient(_)
(* The loop of comment reading on when no `>` follows a `--`. *)
comment_loop_lenient(p) ==
    Bind(next_byte_is(p, DASH), LAMBDA v1, p1 :
        IF ~v1 THEN comment_loop_lenient(p1)
        ELSE Bind(next_byte_is(p1, DASH), LAMBDA v2, p2 :
                 IF ~v2 THEN comment_loop_lenient(p2)
                 ELSE Bind(next_byte_is(p2, GT), LAMBDA v3, p3 :
                          IF ~v3 THEN comment_loop_lenient(p3)
                          ELSE Ok(RawTok("Comment", <<>>, <<>>, <<>>, ""), p3))))

RECURSIVE comment_loop(_)
comment_loop(p) ==
    Bind(next_byte_is(p, DASH), LAMBDA v1, p1 :
        IF ~v1 THEN comment_loop(p1)
        ELSE Bind(next_byte_is(p1, DASH), LAMBDA v2, p2 :
                 IF ~v2 THEN comment_loop(p2)
                 ELSE Bind(require_byte(p2, GT, "MalformedComment"),
                           LAMBDA v3, p3 :
                               Ok(RawTok("Comment", <<>>, <<>>, <<>>, ""), p3))))

comment(p) ==
    Bind(require_byte(p, DASH, "MalformedComment"),
         LAMBDA v, q : comment_loop(q))

RECURSIVE xml_decl_loop_any_order(_, _, _)
(* The loop of xml_decl taking an encoding after a standalone. *)
xml_decl_loop_any_order(p, encoding, standalone) ==
    Bind(whitespace(p), LAMBDA w, p1 :
    Bind(next_byte(p1), LAMBDA b, p2 :
        IF b = LOWER_E /\ w /\ ~encoding.some
        THEN Bind(require_str(p2, S_ncoding, "MalformedXmlDecl"), LAMBDA v3, p3 :
             Bind(equals(p3), LAMBDA v4, p4 :
             Bind(encoding_literal(p4), LAMBDA e, p5 :
                 xml_decl_loop_any_order(p5, SomeName(e), standalone))))
        ELSE IF b = LOWER_S /\ w /\ ~standalone
        THEN Bind(require_str(p2, S_tandalone, "MalformedXmlDecl"), LAMBDA v3, p3 :
             Bind(equals(p3), LAMBDA v4, p4 :
             Bind(yesno_literal(p4), LAMBDA v5, p5 :
                 xml_decl_loop_any_order(p5, encoding, TRUE))))
        ELSE IF b = QUESTION
        THEN Bind(require_byte(p2, GT, "MalformedXmlDecl"),
                  LAMBDA v3, p3 : Ok(encoding, p3))
        ELSE Err("MalformedXmlDecl", p2)))

RECURSIVE xml_decl_loop(_, _, _)
xml_decl_loop(p, encoding, standalone) ==
    Bind(whitespace(p), LAMBDA w, p1 :
    Bind(next_byte(p1), LAMBDA b, p2 :
        IF b = LOWER_E /\ w /\ ~encoding.some /\ ~standalone
        THEN Bind(require_str(p2, S_ncoding, "MalformedXmlDecl"), LAMBDA v3, p3 :
             Bind(equals(p3), LAMBDA v4, p4 :
             Bind(encoding_literal(p4), LAMBDA e, p5 :
                 xml_decl_loop(p5, SomeName(e), standalone))))
        ELSE IF b = LOWER_S /\ w /\ ~standalone
        THEN Bind(require_str(p2, S_tandalone, "MalformedXmlDecl"), LAMBDA v3, p3 :
             Bind(equals(p3), LAMBDA v4, p4 :
             Bind(yesno_literal(p4), LAMBDA v5, p5 :
                 xml_decl_loop(p5, encoding, TRUE))))
        ELSE IF b = QUESTION
        THEN Bind(require_byte(p2, GT, "MalformedXmlDecl"),
                  LAMBDA v3, p3 : Ok(encoding, p3))
        ELSE Err("MalformedXmlDecl", p2)))

(* The encoding name compared as it is written. *)
make_ascii_lowercase_not(s) == s

make_ascii_lowercase(s) == [i \in 1..Len(s) |-> to_ascii_lowercase(s[i])]

xml_decl(p) ==
    Bind(require_whitespace(p, "MalformedXmlDecl"), LAMBDA v1, p1 :
    Bind(require_str(p1, S_version, "MalformedXmlDecl"), LAMBDA v2, p2 :
    Bind(equals(p2), LAMBDA v3, p3 :
    Bind(version_literal(p3), LAMBDA v4, p4 :
    Bind(xml_decl_loop(p4, NoName, FALSE), LAMBDA encoding, p5 :
        IF encoding.some /\ make_ascii_lowercase(encoding.v) # S_utf8
        THEN Err("UnsupportedEncoding", p5)
        ELSE Ok(RawTok("XmlDecl", <<>>, <<>>, <<>>, ""), p5))))))

RECURSIVE read_to_end(_, _, _)
(* `while !buf.ends_with(end) { buf.push(self.next_byte()?) }`, then the   *)
(* truncation of the end marker.                                           *)
read_to_end(p, buf, end) ==
    IF ends_with(buf, end) THEN from_utf8(truncate(buf, Len(buf) - Len(end)), p)
    ELSE Bind(next_byte(p), LAMBDA v, q : read_to_end(q, Append(buf, v), end))

proc_inst(p) ==
    Bind(name(p), LAMBDA target, p1 :
        IF has_xml_prefix(target)
        THEN IF target = S_xml THEN xml_decl(p1) ELSE Err("MalformedProcInst", p1)
        ELSE Bind(whitespace(p1), LAMBDA w, p2 :
                 IF w
                 THEN Bind(read_to_end(p2, <<>>, S_PIEnd), LAMBDA inst, p3 :
                          Ok(RawTok("ProcInst", target, <<>>, inst, ""), p3))
                 ELSE Ok(RawTok("ProcInst", target, <<>>, <<>>, ""), p2)))

(* v: whether an external identifier was read (Some) or not (None). *)
external_entity(p) ==
    Bind(next_byte(p), LAMBDA b, p1 :
        IF b = UPPER_S
        THEN Bind(require_str(p1, S_YSTEM, "MalformedExternalEntity"), LAMBDA v2, p2 :
             Bind(require_whitespace(p2, "MalformedExternalEntity"), LAMBDA v3, p3 :
             Bind(system_literal(p3), LAMBDA v4, p4 : Ok(TRUE, p4))))
        ELSE IF b = UPPER_P
        THEN Bind(require_str(p1, S_UBLIC, "MalformedExternalEntity"), LAMBDA v2, p2 :
             Bind(require_whitespace(p2, "MalformedExternalEntity"), LAMBDA v3, p3 :
             Bind(pubid_literal(p3), LAMBDA v4, p4 :
             Bind(require_whitespace(p4, "MalformedExternalEntity"), LAMBDA v5, p5 :
             Bind(system_literal(p5), LAMBDA v6, p6 : Ok(TRUE, p6))))))
        ELSE Ok(FALSE, unget_byte(p1, b)))

doctype_end(p) ==
    Bind(next_byte(p), LAMBDA b, q :
        IF b = LBRACKET
        THEN Ok(RawTok("DoctypeDef", <<>>, <<>>, <<>>, "DoctypeDecl(true)"), q)
        ELSE IF b = GT
        THEN Ok(RawTok("DoctypeDef", <<>>, <<>>, <<>>, "DoctypeDecl(false)"), q)
        ELSE Err("MalformedDoctype", q))

(* doctype going on to `[` or `>` after an external identifier. *)
doctype_with_external(p) ==
    Bind(require_str(p, S_DOCTYPE, "MalformedDoctype"), LAMBDA v1, p1 :
    Bind(require_whitespace(p1, "MalformedDoctype"), LAMBDA v2, p2 :
    Bind(name(p2), LAMBDA n, p3 :
    Bind(whitespace(p3), LAMBDA w, p4 :
        IF w
        THEN Bind(external_entity(p4), LAMBDA ext, p5 :
             Bind(whitespace(p5), LAMBDA w5, p6 : doctype_end(p6)))
        ELSE doctype_end(p4)))))

doctype(p) ==
    Bind(require_str(p, S_DOCTYPE, "MalformedDoctype"), LAMBDA v1, p1 :
    Bind(require_whitespace(p1, "MalformedDoctype"), LAMBDA v2, p2 :
    Bind(name(p2), LAMBDA n, p3 :
    Bind(whitespace(p3), LAMBDA w, p4 :
        IF w
        THEN Bind(external_entity(p4), LAMBDA ext, p5 :
                 IF ext THEN Err("UnsupportedFeature(ExternalEntities)", p5)
                 ELSE doctype_end(p5))
        ELSE doctype_end(p4)))))

RECURSIVE start_tag_loop(_, _, _)
start_tag_loop(p, n, attrs) ==
    Bind(whitespace(p), LAMBDA w, p1 :
    Bind(next_byte(p1), LAMBDA b, p2 :
        IF b = SLASH
        THEN Bind(require_byte(p2, GT, "MalformedEmptyElemTag"), LAMBDA v3, p3 :
                 Ok(RawTok("StartTag", n, attrs, <<>>, ""),
                    [p3 EXCEPT !.auto_close = SomeName(n)]))
        ELSE IF b = GT THEN Ok(RawTok("StartTag", n, attrs, <<>>, ""), p2)
        ELSE IF w
        THEN Bind(attr(unget_byte(p2, b)), LAMBDA a, p3 :
                 start_tag_loop(p3, n, Append(attrs, a)))
        ELSE Err("MalformedStartTag", p2)))

start_tag(p) == Bind(name(p), LAMBDA n, q : start_tag_loop(q, n, <<>>))

end_tag(p) ==
    Bind(name(p), LAMBDA n, p1 :
    Bind(whitespace(p1), LAMBDA w, p2 :
    Bind(require_byte(p2, GT, "MalformedEndTag"), LAMBDA v3, p3 :
        Ok(RawTok("EndTag", n, <<>>, <<>>, ""), p3))))

char_data(p) ==
    Bind(expanded_text(p, "CharData"), LAMBDA text, q :
        Ok(RawTok("CharData", <<>>, <<>>, text, ""), q))

(* cdata reading its content the way char_data does, references expanded:  *)
(* the variant the CDATA properties are tested against.                    *)
cdata_expanded(p) ==
    Bind(require_str(p, S_CDATA, "MalformedCData"), LAMBDA v1, p1 :
    Bind(expanded_text(p1, "CharData"), LAMBDA text, p2 :
        Ok(RawTok("CharData", <<>>, <<>>, text, ""), p2)))

cdata(p) ==
    Bind(require_str(p, S_CDATA, "MalformedCData"), LAMBDA v1, p1 :
    Bind(read_to_end(p1, <<>>, S_CDEnd), LAMBDA text, p2 :
        Ok(RawTok("CharData", <<>>, <<>>, text, ""), p2)))

(* raw_token reading `auto_close` without take(): the name stays scheduled. *)
auto_close_keep(p) == Ok(RawTok("EndTag", p.auto_close.v, <<>>, <<>>, ""), p)

(* `if let Some(name) = self.auto_close.take() { return Ok(EndTag(name)) }` *)
auto_close_take(p) ==
    Ok(RawTok("EndTag", p.auto_close.v, <<>>, <<>>, ""),
       [p EXCEPT !.auto_close = NoName])

raw_token(p) ==
    IF p.auto_close.some THEN auto_close_take(p)
    ELSE Bind(next_byte(p), LAMBDA b1, p1 :
             IF b1 = LT
             THEN Bind(next_byte(p1), LAMBDA b2, p2 :
                      IF b2 = SLASH THEN end_tag(p2)
                      ELSE IF b2 = QUESTION THEN proc_inst(p2)
                      ELSE IF b2 = BANG
                      THEN Bind(next_byte(p2), LAMBDA b3, p3 :
                               IF b3 = DASH THEN comment(p3)
                               ELSE IF b3 = LBRACKET THEN cdata(p3)
                               ELSE doctype(unget_byte(p3, b3)))
                      ELSE start_tag(unget_byte(p2, b2)))
             ELSE char_data(unget_byte(p1, b1)))

(* byte_order_mark putting back every first byte that is not EF. *)
byte_order_mark_any(p) ==
    Bind(next_byte(p), LAMBDA b, p1 :
        IF b = BOM_EF
        THEN Bind(Require(next_byte_is(p1, BOM_BB), "MalformedByteOrderMark"),
                  LAMBDA v2, p2 :
                      Require(next_byte_is(p2, BOM_BF), "MalformedByteOrderMark"))
        ELSE Ok(TRUE, unget_byte(p1, b)))

byte_order_mark(p) ==
    Bind(next_byte(p), LAMBDA b, p1 :
        IF b = BOM_EF
        THEN Bind(Require(next_byte_is(p1, BOM_BB), "MalformedByteOrderMark"),
                  LAMBDA v2, p2 :
                      Require(next_byte_is(p2, BOM_BF), "MalformedByteOrderMark"))
        ELSE IF b \in {BOM_00, BOM_FE, BOM_FF} THEN Err("UnsupportedEncoding", p1)
        ELSE Ok(TRUE, unget_byte(p1, b)))

(***************************************************************************)
(* read/doctype.rs: the internal-subset grammar.                           *)
(***************************************************************************)
RECURSIVE entity_value_loop(_, _, _)
entity_value_loop(p, quote, buf) ==
    Bind(next_byte(p), LAMBDA b, q :
        IF b = PERCENT THEN Err("UnsupportedFeature(ParameterEntities)", q)
        ELSE IF b = AMP
        THEN Bind(reference(q, buf, TRUE),
                  LAMBDA buf2, q2 : entity_value_loop(q2, quote, buf2))
        ELSE IF b = quote THEN from_utf8(buf, q)
        ELSE entity_value_loop(q, quote, Append(buf, b)))

entity_value(p) ==
    Bind(next_byte(p), LAMBDA b, q :
        IF b \in {APOS, QUOT} THEN entity_value_loop(q, b, <<>>)
        ELSE Err("MalformedEntityValue", q))

DoctypeDef(dt, p) == Ok(RawTok("DoctypeDef", <<>>, <<>>, <<>>, dt), p)

entity_decl(p) ==
    Bind(require_whitespace(p, "MalformedEntityDecl"), LAMBDA v1, p1 :
    Bind(next_byte_is(p1, PERCENT), LAMBDA pe, p2 :
        IF pe THEN Err("UnsupportedFeature(ParameterEntities)", p2)
        ELSE
    Bind(name(p2), LAMBDA n, p3 :
    Bind(require_whitespace(p3, "MalformedEntityDecl"), LAMBDA v4, p4 :
    Bind(external_entity(p4), LAMBDA ext, p5 :
        IF ext THEN Err("UnsupportedFeature(ExternalEntities)", p5)
        ELSE
    Bind(entity_value(p5), LAMBDA value, p6 :
    Bind(whitespace(p6), LAMBDA w, p7 :
    Bind(require_byte(p7, GT, "MalformedEntityDecl"), LAMBDA v8, p8 :
        DoctypeDef("EntityDecl", p8)))))))))

element_decl(p) ==
    Bind(require_whitespace(p, "MalformedEntityDecl"), LAMBDA v1, p1 :
    Bind(name(p1), LAMBDA n, p2 :
    Bind(require_whitespace(p2, "MalformedEntityDecl"), LAMBDA v3, p3 :
    Bind(read_until(p3, GT), LAMBDA v4, p4 : DoctypeDef("ElementDecl", p4)))))

attlist_decl(p) ==
    Bind(require_whitespace(p, "MalformedAttlistDecl"), LAMBDA v1, p1 :
    Bind(name(p1), LAMBDA n, p2 :
    Bind(read_until(p2, GT), LAMBDA v3, p3 : DoctypeDef("AttlistDecl", p3))))

(* notation_decl skipping the declaration as element_decl does. *)
notation_decl_skipped(p) ==
    Bind(read_until(p, GT), LAMBDA v, q : DoctypeDef("NotationDecl", q))

notation_decl(p) == Err("UnsupportedFeature(Notations)", p)

param_entity_ref(p) == Err("UnsupportedFeature(ParameterEntities)", p)

doctype_decl(n, p) ==
    IF n = S_ENTITY THEN entity_decl(p)
    ELSE IF n = S_ELEMENT THEN element_decl(p)
    ELSE IF n = S_ATTLIST THEN attlist_decl(p)
    ELSE IF n = S_NOTATION THEN notation_decl(p)
    ELSE Err("MalformedDoctype", p)

doctype_token(p) ==
    Bind(next_byte(p), LAMBDA b1, p1 :
        IF b1 = LT
        THEN Bind(next_byte(p1), LAMBDA b2, p2 :
                 IF b2 = QUESTION THEN proc_inst(p2)
                 ELSE IF b2 = BANG
                 THEN Bind(next_byte(p2), LAMBDA b3, p3 :
                          IF b3 = DASH THEN comment(p3)
                          ELSE Bind(name(unget_byte(p3, b3)),
                                    LAMBDA n, p4 : doctype_decl(n, p4)))
                 ELSE Err("MalformedDoctype", p2))
        ELSE IF b1 = RBRACKET
        THEN Bind(whitespace(p1), LAMBDA w, p2 :
             Bind(require_byte(p2, GT, "MalformedDoctype"), LAMBDA v3, p3 :
                 DoctypeDef("InternalEnd", p3)))
        ELSE IF b1 = PERCENT THEN param_entity_ref(p1)
        ELSE Err("MalformedDoctype", p1))

(***************************************************************************)
(* read.rs: Parser::token, one operator per arm of its `match self.state`. *)
(* An arm returns Ok(token), an error, or Continue: the loop goes round.   *)
(***************************************************************************)
ContinueTok == RawTok("Continue", <<>>, <<>>, <<>>, "")

Continue(p) == Ok(ContinueTok, p)

Return(t, p) == Ok(Public(t), p)

(* The Begin arm dropping the raw token it read ahead. *)
token_Begin_drop(p) ==
    Bind(byte_order_mark(p), LAMBDA v1, p1 :
    Bind(whitespace(p1), LAMBDA w, p2 :
        IF ~w
        THEN Bind(raw_token(p2), LAMBDA t, p3 :
                 Continue([p3 EXCEPT !.state = "Prologue"]))
        ELSE Continue([p2 EXCEPT !.state = "Prologue"])))

token_Begin(p) ==
    Bind(byte_order_mark(p), LAMBDA v1, p1 :
    Bind(whitespace(p1), LAMBDA w, p2 :
        IF ~w
        THEN Bind(raw_token(p2), LAMBDA t, p3 :
                 IF t.type = "XmlDecl"
                 THEN Continue([p3 EXCEPT !.state = "Prologue"])
                 ELSE Continue([p3 EXCEPT !.last_token = t, !.state = "Prologue"]))
        ELSE Continue([p2 EXCEPT !.state = "Prologue"])))

token_Prologue_match(t, p) ==
    IF t.type = "DoctypeDef" /\ t.dt = "DoctypeDecl(true)"
    THEN Continue([p EXCEPT !.state = "InternalDoctype"])
    ELSE IF t.type = "DoctypeDef" /\ t.dt = "DoctypeDecl(false)" THEN Continue(p)
    ELSE IF t.type = "StartTag"
    THEN Return(t, [p EXCEPT !.tags = Append(@, t.name), !.state = "Normal"])
    ELSE IF t.type = "Comment" THEN Continue(p)
    ELSE IF t.type = "ProcInst" THEN Return(t, p)
    ELSE Err("UnexpectedToken", p)

(* The Prologue arm reading last_token without taking it. *)
token_Prologue_keep(p) ==
    IF p.last_token # NoToken
    THEN token_Prologue_match(p.last_token, p)
    ELSE Bind(whitespace(p), LAMBDA w, p1 :
         Bind(raw_token(p1), LAMBDA t, p2 : token_Prologue_match(t, p2)))

token_Prologue(p) ==
    IF p.last_token # NoToken
    THEN token_Prologue_match(p.last_token, [p EXCEPT !.last_token = NoToken])
    ELSE Bind(whitespace(p), LAMBDA w, p1 :
         Bind(raw_token(p1), LAMBDA t, p2 : token_Prologue_match(t, p2)))

token_InternalDoctype_match(t, p) ==
    IF t.type = "DoctypeDef" /\ t.dt \in {"DoctypeDecl(true)", "DoctypeDecl(false)"}
    THEN Err("UnexpectedToken", p)
    ELSE IF t.type = "DoctypeDef" /\ t.dt = "InternalEnd"
    THEN Continue([p EXCEPT !.state = "Prologue"])
    ELSE IF t.type = "DoctypeDef" THEN Continue(p)
    ELSE IF t.type = "Comment" THEN Continue(p)
    ELSE IF t.type = "ProcInst" THEN Return(t, p)
    ELSE Err("UnexpectedToken", p)

token_InternalDoctype(p) ==
    Bind(whitespace(p), LAMBDA w, p1 :
    Bind(doctype_token(p1), LAMBDA t, p2 : token_InternalDoctype_match(t, p2)))

(* The EndTag arm without the comparison of the two names. *)
token_Normal_EndTag_unchecked(t, p) ==
    IF p.tags = <<>> THEN Err("panic", p)
    ELSE IF Len(p.tags) = 1
    THEN Return(t, [p EXCEPT !.tags = <<>>, !.state = "Epilogue"])
    ELSE Return(t, [p EXCEPT !.tags = SubSeq(@, 1, Len(@) - 1)])

(* The Normal arm leaving for Epilogue at the first end tag that matches,  *)
(* whatever is left on the stack.                                          *)
token_Normal_EndTag_first_ends(t, p) ==
    IF p.tags = <<>> THEN Err("panic", p)
    ELSE IF p.tags[Len(p.tags)] # t.name
    THEN Err("MismatchingStartEndTags", [p EXCEPT !.tags = SubSeq(@, 1, Len(@) - 1)])
    ELSE Return(t, [p EXCEPT !.tags = SubSeq(@, 1, Len(@) - 1), !.state = "Epilogue"])

(* `self.tags.pop().unwrap()` panics on an empty stack. *)
token_Normal_EndTag(t, p) ==
    IF p.tags = <<>> THEN Err("panic", p)
    ELSE IF p.tags[Len(p.tags)] # t.name
    THEN Err("MismatchingStartEndTags", [p EXCEPT !.tags = SubSeq(@, 1, Len(@) - 1)])
    ELSE IF Len(p.tags) = 1
    THEN Return(t, [p EXCEPT !.tags = <<>>, !.state = "Epilogue"])
    ELSE Return(t, [p EXCEPT !.tags = SubSeq(@, 1, Len(@) - 1)])

(* The Normal arm returning a start tag without pushing its name. *)
token_Normal_match_no_push(t, p) ==
    IF t.type = "StartTag" THEN Return(t, p)
    ELSE IF t.type = "EndTag" THEN token_Normal_EndTag(t, p)
    ELSE IF t.type = "CharData" THEN Return(t, p)
    ELSE IF t.type = "Comment" THEN Continue(p)
    ELSE IF t.type = "ProcInst" THEN Return(t, p)
    ELSE Err("UnexpectedToken", p)

token_Normal_match(t, p) ==
    IF t.type = "StartTag" THEN Return(t, [p EXCEPT !.tags = Append(@, t.name)])
    ELSE IF t.type = "EndTag" THEN token_Normal_EndTag(t, p)
    ELSE IF t.type = "CharData" THEN Return(t, p)
    ELSE IF t.type = "Comment" THEN Continue(p)
    ELSE IF t.type = "ProcInst" THEN Return(t, p)
    ELSE Err("UnexpectedToken", p)

token_Normal(p) == Bind(raw_token(p), LAMBDA t, q : token_Normal_match(t, q))

(* The Epilogue arm passing every raw token but Comment on to the caller. *)
token_Epilogue_match_any(t, p) ==
    IF t.type = "Comment" THEN Continue(p) ELSE Return(t, p)

token_Epilogue_match(t, p) ==
    IF t.type = "Comment" THEN Continue(p)
    ELSE IF t.type = "ProcInst" THEN Return(t, p)
    ELSE Err("UnexpectedToken", p)

(* The Epilogue arm taking the end of input inside a raw token for the end *)
(* of the document as well.                                                *)
EndAtEof(r) ==
    IF r.err = "UnexpectedEof" THEN Ok(EndOfFile, [r.p EXCEPT !.state = "End"])
    ELSE r

token_Epilogue_ws_eof_anywhere(w) ==
    EndAtEof(Bind(w, LAMBDA v, p1 :
             Bind(raw_token(p1), LAMBDA t, p2 : token_Epilogue_match(t, p2))))

(* `match self.whitespace()`: the end of input is EndOfFile, another error *)
(* returns, and Ok goes on to a raw token.                                 *)
token_Epilogue_ws(w) ==
    IF w.err = "UnexpectedEof" THEN Ok(EndOfFile, [w.p EXCEPT !.state = "End"])
    ELSE Bind(w, LAMBDA v, p1 :
         Bind(raw_token(p1), LAMBDA t, p2 : token_Epilogue_match(t, p2)))

token_Epilogue(p) == token_Epilogue_ws(whitespace(p))

(* The End arm reporting the end of input as an error. *)
token_End_error(p) == Err("UnexpectedEof", p)

token_End(p) == Ok(EndOfFile, p)

token_arm(p) ==
    IF p.state = "Begin" THEN token_Begin(p)
    ELSE IF p.state = "Prologue" THEN token_Prologue(p)
    ELSE IF p.state = "InternalDoctype" THEN token_InternalDoctype(p)
    ELSE IF p.state = "Normal" THEN token_Normal(p)
    ELSE IF p.state = "Epilogue" THEN token_Epilogue(p)
    ELSE token_End(p)

RECURSIVE token_loop(_)
token_loop(r) ==
    IF r.err = "" /\ r.v = ContinueTok THEN token_loop(token_arm(r.p)) ELSE r

token(p) == token_loop(token_arm(p))

(* Iterator for Parser: v.some = FALSE is None, else Some(Ok(tok)) or        *)
(* Some(Err(err)).                                                          *)
None == [some |-> FALSE, err |-> "", tok |-> NoToken]

Some(err, tok) == [some |-> TRUE, err |-> err, tok |-> tok]

(* Iterator::next without the arm for EndOfFile: every result is an item. *)
Parser_next_match_all(r) ==
    [item |-> Some(r.err, IF r.err = "" THEN r.v ELSE NoToken), r |-> r]

Parser_next_match(r) ==
    IF r.err = "" /\ r.v = EndOfFile THEN [item |-> None, r |-> r]
    ELSE [item |-> Some(r.err, IF r.err = "" THEN r.v ELSE NoToken), r |-> r]

Parser_next(p) == Parser_next_match(token(p))

(***************************************************************************)
(* Documents.  A document is a sequence of chunks; the reader is given     *)
(* their concatenation.                                                    *)
(***************************************************************************)
MaxFrags == 3
MaxCalls == 8
MaxText == 3
MaxSrc == 4
MaxReads == 5
MaxBuf == 2

RECURSIVE Flatten(_)
Flatten(chunks) == IF chunks = <<>> THEN <<>> ELSE Head(chunks) \o Flatten(Tail(chunks))

ChunkSeqs(F, n) == UNION {[1..k -> F] : k \in 0..n}

D_open_t == <<60, 116, 62>>                 \* <t>
D_close_t == <<60, 47, 116, 62>>            \* </t>
D_empty_t == <<60, 116, 47, 62>>            \* <t/>
D_open_u == <<60, 117, 62>>                 \* <u>
D_close_u == <<60, 47, 117, 62>>            \* </u>
D_empty_attr == <<60, 116, 32, 97, 61, 39, 118, 39, 47, 62>>   \* <t a='v'/>
D_open_attr == <<60, 116, 32, 97, 61, 39, 118, 39, 62>>        \* <t a='v'>
D_text == <<97>>                            \* a
D_space == <<32>>
D_comment == <<60, 33, 45, 45, 99, 45, 45, 62>>                \* <!--c-->
D_pi == <<60, 63, 112, 32, 105, 63, 62>>    \* <?p i?>
D_pi_space == <<60, 63, 112, 32, 63, 62>>   \* <?p ?>
D_pi_bare == <<60, 63, 112, 63, 62>>        \* <?p?>
D_cdata == <<60, 33, 91, 67, 68, 65, 84, 65, 91, 120, 93, 93, 62>>   \* <![CDATA[x]]>
D_doctype == <<60, 33, 68, 79, 67, 84, 89, 80, 69, 32, 116, 62>>     \* <!DOCTYPE t>
D_xmldecl == <<60, 63, 120, 109, 108, 32, 118, 101, 114, 115, 105, 111, 110,
               61, 39, 49, 46, 48, 39, 63, 62>>                \* <?xml version='1.0'?>

DocChunks ==
    {D_open_t, D_close_t, D_empty_t, D_open_u, D_close_u, D_empty_attr, D_text,
     D_space, D_comment, D_pi, D_pi_space, D_pi_bare, D_cdata, D_doctype,
     D_xmldecl}

(* Element text: references, plain bytes, and the bytes of `]]>`. *)
T_dec == <<38, 35, 54, 53, 59>>             \* &#65;
T_hex == <<38, 35, 120, 52, 49, 59>>        \* &#x41;
T_rbracket == <<38, 35, 57, 51, 59>>        \* &#93;
T_amp == <<38, 97, 109, 112, 59>>           \* &amp;
T_lt == <<38, 108, 116, 59>>                \* &lt;
T_gt == <<38, 103, 116, 59>>                \* &gt;
T_apos == <<38, 97, 112, 111, 115, 59>>     \* &apos;
T_quot == <<38, 113, 117, 111, 116, 59>>    \* &quot;

TextChunks ==
    {T_dec, T_hex, T_rbracket, T_amp, T_lt, T_gt, T_apos, T_quot,
     <<97>>, <<RBRACKET>>, <<GT>>}

(* The content of a CDATA section. *)
D_cdata_open == <<60, 33, 91, 67, 68, 65, 84, 65, 91>>         \* <![CDATA[
D_cdata_close == <<93, 93, 62>>                                \* ]]>

CDataChunks ==
    {<<LT>>, <<GT>>, <<AMP>>, T_amp, T_dec, <<RBRACKET>>, <<CR>>, <<LF>>, <<97>>}

TextDocs ==
    {<<D_open_t>> \o body \o <<D_close_t>> : body \in ChunkSeqs(TextChunks, MaxText)}

CDataDocs ==
    {<<D_open_t, D_cdata_open>> \o body \o <<D_cdata_close, D_close_t>> :
        body \in ChunkSeqs(CDataChunks, MaxText)}

(* The sources of the byte stream alone, and what its user pushes back. *)
SrcBytes == {CR, LF, 97}

Sources == UNION {[1..k -> SrcBytes] : k \in 0..MaxSrc}

PushBytes == {LF, 98}

PushBuf == <<99, LF>>

(***************************************************************************)
(* The client of the parser: it calls token() or the iterator's next() on  *)
(* one parser, and, as the documentation of token() asks, calls nothing    *)
(* after an error.  out is the history of what token() returned (also when *)
(* next() called it); item is what the last call returned if it was next().*)
(***************************************************************************)
NotCalled == [some |-> FALSE, err |-> "not called", tok |-> NoToken]

Result(r) == [err |-> r.err, tok |-> IF r.err = "" THEN r.v ELSE NoToken]

Failed == \E i \in DOMAIN out : out[i].err # ""

CanCall == Len(out) < MaxCalls /\ ~Failed

(* The call has returned r; it is what the caller of next() was given. *)
Returned(r, it) ==
    /\ parser' = r.p
    /\ out' = Append(out, Result(r))
    /\ item' = it
    /\ UNCHANGED <<input, reader, got>>

NextReturned(n) == Returned(n.r, n.item)

TokenCall == CanCall /\ Returned(token(parser), NotCalled)

NextCall == CanCall /\ NextReturned(Parser_next(parser))

InitWith(docs) ==
    /\ input \in docs
    /\ parser = from_reader_parser(Flatten(input))
    /\ out = <<>>
    /\ item = NotCalled
    /\ reader = from_reader(<<>>)
    /\ got = <<>>

Init == InitWith(ChunkSeqs(DocChunks, MaxFrags))

Next == TokenCall \/ NextCall

Spec == Init /\ [][Next]_vars

(* Elements whose content is text with references, or one CDATA section. *)
InitText == InitWith(TextDocs \cup CDataDocs)

NextText == TokenCall \/ NextCall

SpecText == InitText /\ [][NextText]_vars

(***************************************************************************)
(* The user of the byte stream alone: it reads bytes and pushes bytes      *)
(* back.  got is the history of what next() returned, each byte with       *)
(* whether it came from the push-back buffer.                              *)
(***************************************************************************)
BytesReturned(r, pushed) ==
    /\ reader' = r.s
    /\ got' = Append(got, [b |-> r.b, pushed |-> pushed])
    /\ UNCHANGED <<input, parser, out, item>>

BytesNext ==
    /\ Len(got) < MaxReads
    /\ BytesReturned(Bytes_next(reader), reader.buf # <<>>)

BytesUnget ==
    /\ Len(got) < MaxReads
    /\ Len(reader.buf) < MaxBuf
    /\ \E b \in PushBytes : reader' = unget(reader, b)
    /\ UNCHANGED <<input, parser, out, item, got>>

BytesUngetBuf ==
    /\ Len(got) < MaxReads
    /\ reader.buf = <<>>
    /\ reader' = unget_buf(reader, PushBuf)
    /\ UNCHANGED <<input, parser, out, item, got>>

InitBytes ==
    /\ input = <<>>
    /\ parser = from_reader_parser(<<>>)
    /\ out = <<>>
    /\ item = NotCalled
    /\ \E src \in Sources : reader = from_reader(src)
    /\ got = <<>>

NextBytes == BytesNext \/ BytesUnget \/ BytesUngetBuf

SpecBytes == InitBytes /\ [][NextBytes]_vars

(***************************************************************************)
(* What the properties below are stated with.  None of it is the parser:   *)
(* these are the observer's own readings of the history and of the input.  *)
(***************************************************************************)
Last(s) == s[Len(s)]

Front(s) == SubSeq(s, 1, Len(s) - 1)

IsEof(r) == r.err = "" /\ r.tok = EndOfFile

IsTok(r, type) == r.err = "" /\ r.tok.type = type

(* A step in which token() was called, by either action. *)
Called == Len(out') = Len(out) + 1

(* The results of n calls of token() on p, stopping after an error. *)
RECURSIVE ParseN(_, _)
ParseN(p, n) ==
    IF n = 0 THEN <<>>
    ELSE LET r == token(p)
         IN  IF r.err # "" THEN <<Result(r)>>
             ELSE <<Result(r)>> \o ParseN(r.p, n - 1)

(* The parser at the start of the iteration of token()'s loop that returns. *)
RECURSIVE FinalArm(_)
FinalArm(p) ==
    LET r == token_arm(p)
    IN  IF r.err = "" /\ r.v = ContinueTok THEN FinalArm(r.p) ELSE p

(* The raw token that the arm of p's state reads, or the error of reading. *)
ArmReads(p) ==
    IF p.state = "Prologue"
    THEN IF p.last_token # NoToken THEN Ok(p.last_token, p)
         ELSE Bind(whitespace(p), LAMBDA w, q : raw_token(q))
    ELSE IF p.state = "InternalDoctype"
    THEN Bind(whitespace(p), LAMBDA w, q : doctype_token(q))
    ELSE IF p.state = "Normal" THEN raw_token(p)
    ELSE IF p.state = "Epilogue"
    THEN Bind(whitespace(p), LAMBDA w, q : raw_token(q))
    ELSE Err("no raw token", p)

(* The names of the start tags in a history that no end tag has matched. *)
RECURSIVE Unmatched(_)
Unmatched(h) ==
    IF h = <<>> THEN <<>>
    ELSE IF IsTok(Last(h), "StartTag")
    THEN Append(Unmatched(Front(h)), Last(h).tok.name)
    ELSE IF IsTok(Last(h), "EndTag") /\ Unmatched(Front(h)) # <<>>
    THEN Front(Unmatched(Front(h)))
    ELSE Unmatched(Front(h))

OkTok(t) == [err |-> "", tok |-> t]

StartTagOf(n, attrs) == RawTok("StartTag", n, attrs, <<>>, "")

EndTagOf(n) == RawTok("EndTag", n, <<>>, <<>>, "")

CharDataOf(text) == RawTok("CharData", <<>>, <<>>, text, "")

ProcInstOf(target, inst) == RawTok("ProcInst", target, <<>>, inst, "")

(***************************************************************************)
(* C1.  Once token() has returned EndOfFile, every later call of token()   *)
(* on the same parser returns EndOfFile again: not an error, not another   *)
(* token, however many calls follow.                                       *)
(***************************************************************************)
EofIsFinal ==
    \A i, j \in DOMAIN out : i < j /\ IsEof(out[i]) => IsEof(out[j])

(* EndOfFile was returned, and then token() was called at least twice. *)
EofRepeated ==
    \E i \in DOMAIN out : IsEof(out[i]) /\ i + 2 <= Len(out)

(***************************************************************************)
(* C2 as amended.  An end tag that is emitted has the name of the most     *)
(* recently pushed start tag that is still unmatched, and it is emitted    *)
(* only when token() read an end tag of that name.  Inside the root        *)
(* element an end tag of another name makes token() fail with              *)
(* MismatchingStartEndTags, which has no other cause.  An end tag read     *)
(* while no start tag is unmatched, before the root element or after it    *)
(* is closed, makes token() fail with UnexpectedToken.                     *)
(***************************************************************************)
EndTagRead(rt) == rt.err = "" /\ rt.v.type = "EndTag"

TagStackStep(stray) ==
    LET rt == ArmReads(FinalArm(parser))
        open == Unmatched(out)
        res == Last(out')
    IN  /\ parser.tags = open
        /\ IsTok(res, "EndTag") =>
              /\ EndTagRead(rt) /\ open # <<>>
              /\ res.tok.name = Last(open) /\ rt.v.name = Last(open)
              /\ parser'.tags = Front(open)
        /\ EndTagRead(rt) /\ open # <<>> /\ rt.v.name = Last(open) =>
              res = OkTok(EndTagOf(Last(open)))
        /\ EndTagRead(rt) /\ open # <<>> /\ rt.v.name # Last(open) =>
              res.err = "MismatchingStartEndTags"
        /\ res.err = "MismatchingStartEndTags" =>
              EndTagRead(rt) /\ open # <<>> /\ rt.v.name # Last(open)
        /\ EndTagRead(rt) /\ open = <<>> => res.err = stray

TagStackInvariant == [][Called => TagStackStep("UnexpectedToken")]_vars

(* The root element was closed and a further end tag was refused. *)
StrayEndTagRefused ==
    /\ input = <<D_empty_t, D_close_t>>
    /\ Len(out) = 3
    /\ out[3].err = "UnexpectedToken"

(* An end tag of another name was refused inside the root element. *)
WrongEndTagRefused ==
    /\ input = <<D_open_t, D_open_u, D_close_t>>
    /\ Len(out) = 3
    /\ out[3].err = "MismatchingStartEndTags"

(* C2 as stated: an end tag read while no start tag is unmatched fails     *)
(* with MismatchingStartEndTags as well.                                   *)
TagStackInvariantAsStated ==
    [][Called => TagStackStep("MismatchingStartEndTags")]_vars

(***************************************************************************)
(* C3.  An empty-element tag `<n .../>` gives StartTag{n, attrs} and then  *)
(* at once EndTag{n}: the tokens of a document are those of the document   *)
(* in which every `<n .../>` is written `<n ...></n>`, as the root element *)
(* and nested in others.  The scheduled end tag is what the next call      *)
(* returns, and returning it reads no byte of the input.                   *)
(***************************************************************************)
TwinChunk(c) ==
    IF c = D_empty_t THEN <<D_open_t, D_close_t>>
    ELSE IF c = D_empty_attr THEN <<D_open_attr, D_close_t>>
    ELSE <<c>>

RECURSIVE Twin(_)
Twin(chunks) ==
    IF chunks = <<>> THEN <<>>
    ELSE TwinChunk(Head(chunks)) \o Twin(Tail(chunks))

SameAsTwin == out = ParseN(from_reader_parser(Flatten(Twin(input))), Len(out))

(* Until a call fails: after an error the parser is in no valid state. *)
AutoCloseScheduled ==
    parser.auto_close.some /\ ~Failed =>
        /\ out # <<>>
        /\ IsTok(Last(out), "StartTag")
        /\ Last(out).tok.name = parser.auto_close.v

AutoCloseStep ==
    Called /\ parser.auto_close.some =>
        /\ Last(out') = OkTok(EndTagOf(parser.auto_close.v))
        /\ parser'.bytes = parser.bytes
        /\ ~parser'.auto_close.some

SelfClosingEquivalence ==
    /\ [](SameAsTwin /\ AutoCloseScheduled)
    /\ [][AutoCloseStep]_vars

(* `<u><t a='v'/></u>` was read through; `<t a='v'/>` gave two tokens. *)
SelfClosingNested ==
    /\ input = <<D_open_u, D_empty_attr, D_close_u>>
    /\ Len(out) = 4
    /\ out[2] = OkTok(StartTagOf(<<116>>, <<Attr(<<97>>, <<118>>)>>))
    /\ out[3] = OkTok(EndTagOf(<<116>>))
    /\ out[4] = OkTok(EndTagOf(<<117>>))

(***************************************************************************)
(* C4.  In the text of an element every decimal character reference,       *)
(* hexadecimal character reference and predefined entity reference is      *)
(* replaced by the character it denotes, and the text up to the next `<`   *)
(* is one CharData token; an expanded `<` or `&` neither ends the text nor *)
(* is expanded again.  Stated for every text without the literal `]]>`.    *)
(***************************************************************************)
Denotes(c) ==
    IF c = T_dec \/ c = T_hex THEN <<65>>
    ELSE IF c = T_rbracket THEN <<93>>
    ELSE IF c = T_amp THEN <<38>>
    ELSE IF c = T_lt THEN <<60>>
    ELSE IF c = T_gt THEN <<62>>
    ELSE IF c = T_apos THEN <<39>>
    ELSE IF c = T_quot THEN <<34>>
    ELSE c

RECURSIVE Denoted(_)
Denoted(chunks) ==
    IF chunks = <<>> THEN <<>> ELSE Denotes(Head(chunks)) \o Denoted(Tail(chunks))

Contains(s, pat) ==
    \E i \in 1..Len(s) : i + Len(pat) - 1 <= Len(s) /\ SubSeq(s, i, i + Len(pat) - 1) = pat

IsTextDoc == Len(input) >= 3 /\ input[2] # D_cdata_open

Body(chunks) == SubSeq(chunks, 2, Len(chunks) - 1)

ReferencesExpanded ==
    IsTextDoc /\ ~Contains(Flatten(Body(input)), S_CDEnd) /\ Len(out) >= 2 =>
        out[2] = OkTok(CharDataOf(Denoted(Body(input))))

(***************************************************************************)
(* C5.  The content of a CDATA section is one CharData token: the bytes    *)
(* between `<![CDATA[` and the first `]]>` after it, as they are but for   *)
(* the normalization of newlines; `<`, `>`, `&` and what looks like a      *)
(* reference are not interpreted.                                          *)
(***************************************************************************)
RECURSIVE Normalize(_)
Normalize(s) ==
    IF s = <<>> THEN <<>>
    ELSE IF Len(s) >= 2 /\ s[1] = CR /\ s[2] = LF
    THEN <<LF>> \o Normalize(SubSeq(s, 3, Len(s)))
    ELSE IF s[1] = CR THEN <<LF>> \o Normalize(Tail(s))
    ELSE <<s[1]>> \o Normalize(Tail(s))

(* s up to where pat first occurs in it. *)
RECURSIVE BeforeFirst(_, _)
BeforeFirst(s, pat) ==
    IF s = <<>> \/ starts_with(s, pat) THEN <<>>
    ELSE <<Head(s)>> \o BeforeFirst(Tail(s), pat)

IsCDataDoc == Len(input) >= 4 /\ input[2] = D_cdata_open

CDataContent ==
    BeforeFirst(Flatten(SubSeq(input, 3, Len(input))), S_CDEnd)

CDataLiteral ==
    IsCDataDoc /\ Len(out) >= 2 =>
        out[2] = OkTok(CharDataOf(Normalize(CDataContent)))

(* `<t><![CDATA[<&amp;\r]]></t>`: the content came out as it is written. *)
CDataKeptMarkup ==
    /\ input = <<D_open_t, D_cdata_open, <<LT>>, T_amp, <<CR>>, D_cdata_close, D_close_t>>
    /\ Len(out) = 3
    /\ out[2] = OkTok(CharDataOf(<<60, 38, 97, 109, 112, 59, 10>>))
    /\ out[3] = OkTok(EndTagOf(<<116>>))

(***************************************************************************)
(* C6.  Each logical newline read from the source, `\n`, a lone `\r` or    *)
(* the pair `\r\n`, is returned by the byte stream as exactly one `\n`,    *)
(* and `\n\r` is two logical newlines: the bytes that next() has taken     *)
(* from the source are a prefix of the source with its newlines            *)
(* normalized, and all of it once the end of the source was reported.      *)
(***************************************************************************)
RECURSIVE FromSource(_)
FromSource(g) ==
    IF g = <<>> THEN <<>>
    ELSE IF Last(g).pushed \/ Last(g).b = NoByte THEN FromSource(Front(g))
    ELSE Append(FromSource(Front(g)), Last(g).b)

SourceEnded == \E i \in DOMAIN got : ~got[i].pushed /\ got[i].b = NoByte

IsPrefix(s, t) == Len(s) <= Len(t) /\ SubSeq(t, 1, Len(s)) = s

NewlinesNormalized ==
    /\ IsPrefix(FromSource(got), Normalize(reader.src))
    /\ SourceEnded => FromSource(got) = Normalize(reader.src)

(* `\n\r\r\n` was read to its end as three `\n`. *)
ThreeNewlinesRead ==
    /\ reader.src = <<LF, CR, CR, LF>>
    /\ SourceEnded
    /\ FromSource(got) = <<LF, LF, LF>>

(***************************************************************************)
(* C7.  A token sequence written back as well-formed XML with start tags   *)
(* and their attributes, end tags, character data and processing           *)
(* instructions only, and parsed again, gives the same token sequence.     *)
(* The sequences are those the parser itself delivered up to EndOfFile, in *)
(* which no two CharData tokens are neighbours (text has no seam to write).*)
(***************************************************************************)
EscapeByte(b) ==
    IF b = LT THEN T_lt
    ELSE IF b = GT THEN T_gt
    ELSE IF b = AMP THEN T_amp
    ELSE IF b = APOS THEN T_apos
    ELSE IF b = CR THEN <<AMP, HASH, 49, 51, SEMI>>
    ELSE <<b>>

RECURSIVE Escape(_)
Escape(s) == IF s = <<>> THEN <<>> ELSE EscapeByte(Head(s)) \o Escape(Tail(s))

RECURSIVE WriteAttrs(_)
WriteAttrs(attrs) ==
    IF attrs = <<>> THEN <<>>
    ELSE <<SPACE>> \o Head(attrs).name \o <<EQUALS, APOS>>
         \o Escape(Head(attrs).value) \o <<APOS>> \o WriteAttrs(Tail(attrs))

WriteToken(t) ==
    IF t.type = "StartTag" THEN <<LT>> \o t.name \o WriteAttrs(t.attrs) \o <<GT>>
    ELSE IF t.type = "EndTag" THEN <<LT, SLASH>> \o t.name \o <<GT>>
    ELSE IF t.type = "CharData" THEN Escape(t.text)
    ELSE IF t.type = "ProcInst"
    THEN <<LT, QUESTION>> \o t.name
         \o (IF t.text = <<>> THEN <<>> ELSE <<SPACE>> \o t.text) \o S_PIEnd
    ELSE <<>>

RECURSIVE Write(_)
Write(h) == IF h = <<>> THEN <<>> ELSE WriteToken(Head(h).tok) \o Write(Tail(h))

Writable(h) ==
    /\ h # <<>>
    /\ IsEof(Last(h))
    /\ \A i \in 1..(Len(h) - 1) : h[i].err = "" /\ ~IsEof(h[i])
    /\ \A i \in 1..(Len(h) - 1) :
           ~(IsTok(h[i], "CharData") /\ IsTok(h[i + 1], "CharData"))

RoundTrip ==
    Writable(out) => ParseN(from_reader_parser(Write(out)), Len(out)) = out

(***************************************************************************)
(* C8.  Parser::next yields Some(item) for every token or error that       *)
(* token() returns before EndOfFile, yields None exactly when token()      *)
(* returns EndOfFile, and yields None on every later call; EndOfFile       *)
(* itself is never an item.                                                *)
(***************************************************************************)
NextYields ==
    item # NotCalled =>
        /\ out # <<>>
        /\ item = IF IsEof(Last(out)) THEN None
                  ELSE Some(Last(out).err, Last(out).tok)
        /\ item.some => item.tok # EndOfFile

NoneAfterNone ==
    (\E i \in DOMAIN out : IsEof(out[i])) /\ item' # NotCalled /\ Called =>
        item' = None

IteratorView == []NextYields /\ [][NoneAfterNone]_vars

(* next() gave a token, then None at the end of input, then None again. *)
NoneTwice ==
    /\ Len(out) >= 3
    /\ ~IsEof(out[Len(out) - 2])
    /\ IsEof(out[Len(out) - 1])
    /\ IsEof(Last(out))
    /\ item = None

(***************************************************************************)
(* C9 as amended.  After the root element is closed, whitespace and        *)
(* comments are consumed and a processing instruction is emitted; the end  *)
(* of input moves to End and emits EndOfFile; any other raw token that is  *)
(* read to its end (a start tag, an end tag, text that a `<` ends, a CDATA *)
(* section, a DOCTYPE without external identifier, an XML declaration)     *)
(* makes token() fail with UnexpectedToken.  When the raw token cannot be  *)
(* read, the error of reading it is the result: text that runs to the end  *)
(* of input fails with UnexpectedEof.                                      *)
(***************************************************************************)
RECURSIVE Reverse(_)
Reverse(s) == IF s = <<>> THEN <<>> ELSE Append(Reverse(Tail(s)), Head(s))

(* The bytes that the parser has not read yet, before normalization. *)
Unread(p) ==
    Reverse(p.bytes.buf) \o SubSeq(p.bytes.src, p.bytes.pos, Len(p.bytes.src))

OnlySpaceLeft(p) ==
    \A i \in DOMAIN Unread(p) : Unread(p)[i] \in {SPACE, TAB, CR, LF}

EpilogueStep(asStated) ==
    LET p0 == FinalArm(parser)
        rt == ArmReads(p0)
        res == Last(out')
    IN  /\ OnlySpaceLeft(p0) =>
              res = OkTok(EndOfFile) /\ parser'.state = "End"
        /\ ~OnlySpaceLeft(p0) /\ IsTok(Result(rt), "ProcInst") =>
              res = OkTok(Public(rt.v)) /\ parser'.state = "Epilogue"
        /\ ~OnlySpaceLeft(p0) /\ rt.err = "" /\ rt.v.type # "ProcInst" =>
              res.err = "UnexpectedToken"
        /\ ~OnlySpaceLeft(p0) /\ rt.err # "" =>
              res.err = IF asStated THEN "UnexpectedToken" ELSE rt.err

EpilogueAccepts ==
    [][Called /\ parser.state = "Epilogue" => EpilogueStep(FALSE)]_vars

(* `<t/>a<t>`: text after the root element, ended by `<`, was refused. *)
EpilogueTextRefused ==
    /\ input = <<D_empty_t, D_text, D_open_t>>
    /\ Len(out) = 3
    /\ out[3].err = "UnexpectedToken"

(* C9 as stated: whatever else follows the root element, text that runs to *)
(* the end of input too, fails with UnexpectedToken.                       *)
EpilogueAcceptsAsStated ==
    [][Called /\ parser.state = "Epilogue" => EpilogueStep(TRUE)]_vars

(***************************************************************************)
(* C10.  A processing instruction is accepted in both forms: `<?p i?>`     *)
(* gives ProcInst{p, "i"} and `<?p?>` gives ProcInst{p, ""}; in both the   *)
(* closing `?>` is consumed, so that the next call of token() goes on with *)
(* what follows the `?>`.                                                  *)
(***************************************************************************)
(* The bytes of the source that the parser has read and not pushed back. *)
Consumed(p) == SubSeq(p.bytes.src, 1, p.bytes.pos - 1 - Len(p.bytes.buf))

InstOf(c) == IF c = D_pi THEN <<105>> ELSE <<>>

ProcInstStep ==
    Called /\ IsTok(Last(out'), "ProcInst") =>
        \E c \in {D_pi, D_pi_space, D_pi_bare} :
            /\ ends_with(Consumed(parser'), c)
            /\ Last(out').tok = ProcInstOf(<<112>>, InstOf(c))

ProcInstFirst ==
    out # <<>> /\ input # <<>> /\ input[1] \in {D_pi, D_pi_space, D_pi_bare} =>
        out[1] = OkTok(ProcInstOf(<<112>>, InstOf(input[1])))

ProcInstBothForms == []ProcInstFirst /\ [][ProcInstStep]_vars

(***************************************************************************)
(* Documents with a DOCTYPE declaration: an internal subset of up to       *)
(* MaxDecls declarations before the root element, and declarations with an *)
(* external identifier in every place of a document.                       *)
(***************************************************************************)
MaxDecls == 2

\* <!DOCTYPE t [
DT_open == <<60, 33, 68, 79, 67, 84, 89, 80, 69, 32, 116, 32, 91>>
\* <!DOCTYPE t[
DT_open_tight == <<60, 33, 68, 79, 67, 84, 89, 80, 69, 32, 116, 91>>
\* ]>
DT_close == <<93, 62>>
\* ] >
DT_close_space == <<93, 32, 62>>
\* <!DOCTYPE t SYSTEM "a">
DT_system == <<60, 33, 68, 79, 67, 84, 89, 80, 69, 32, 116, 32, 83, 89, 83,
               84, 69, 77, 32, 34, 97, 34, 62>>
\* <!DOCTYPE t PUBLIC "a" "b">
DT_public == <<60, 33, 68, 79, 67, 84, 89, 80, 69, 32, 116, 32, 80, 85, 66,
               76, 73, 67, 32, 34, 97, 34, 32, 34, 98, 34, 62>>
\* <!DOCTYPE t SYSTEM 'a' [
DT_system_subset == <<60, 33, 68, 79, 67, 84, 89, 80, 69, 32, 116, 32, 83,
                      89, 83, 84, 69, 77, 32, 39, 97, 39, 32, 91>>
\* <!DOCTYPE t PUBLIC 'a' 'b'[
DT_public_subset == <<60, 33, 68, 79, 67, 84, 89, 80, 69, 32, 116, 32, 80,
                      85, 66, 76, 73, 67, 32, 39, 97, 39, 32, 39, 98, 39,
                      91>>
\* <!ENTITY e "v">
E_ent1 == <<60, 33, 69, 78, 84, 73, 84, 89, 32, 101, 32, 34, 118, 34, 62>>
\* <!ENTITY ee "v">
E_ent2 == <<60, 33, 69, 78, 84, 73, 84, 89, 32, 101, 101, 32, 34, 118, 34,
            62>>
\* <!ENTITY eee 'v' >
E_ent3 == <<60, 33, 69, 78, 84, 73, 84, 89, 32, 101, 101, 101, 32, 39, 118,
            39, 32, 62>>
\* <!ENTITY ee "&#65;">
E_charref == <<60, 33, 69, 78, 84, 73, 84, 89, 32, 101, 101, 32, 34, 38,
               35, 54, 53, 59, 34, 62>>
\* <!ENTITY ee "&amp;">
E_amp == <<60, 33, 69, 78, 84, 73, 84, 89, 32, 101, 101, 32, 34, 38, 97,
           109, 112, 59, 34, 62>>
\* <!ENTITY ee "&u;">
E_unknown == <<60, 33, 69, 78, 84, 73, 84, 89, 32, 101, 101, 32, 34, 38,
               117, 59, 34, 62>>
\* <!ENTITY ee "%pe;">
E_percent == <<60, 33, 69, 78, 84, 73, 84, 89, 32, 101, 101, 32, 34, 37,
               112, 101, 59, 34, 62>>
\* <!ENTITY % pe "v">
E_pe_decl == <<60, 33, 69, 78, 84, 73, 84, 89, 32, 37, 32, 112, 101, 32,
               34, 118, 34, 62>>
\* %pe;
E_pe_ref == <<37, 112, 101, 59>>
\* <!NOTATION n SYSTEM "a">
E_notation == <<60, 33, 78, 79, 84, 65, 84, 73, 79, 78, 32, 110, 32, 83,
                89, 83, 84, 69, 77, 32, 34, 97, 34, 62>>
\* <!ELEMENT t EMPTY>
E_element == <<60, 33, 69, 76, 69, 77, 69, 78, 84, 32, 116, 32, 69, 77, 80,
               84, 89, 62>>
\* <!ATTLIST t a CDATA #IMPLIED>
E_attlist == <<60, 33, 65, 84, 84, 76, 73, 83, 84, 32, 116, 32, 97, 32, 67,
               68, 65, 84, 65, 32, 35, 73, 77, 80, 76, 73, 69, 68, 62>>

SubsetChunks ==
    {D_space, D_comment, D_pi, D_pi_bare, E_ent1, E_ent2, E_ent3, E_charref,
     E_amp, E_unknown, E_percent, E_pe_decl, E_pe_ref, E_notation, E_element,
     E_attlist}

SubsetDocs ==
    {<<h>> \o s \o <<c, D_empty_t>> :
        h \in {DT_open, DT_open_tight},
        s \in ChunkSeqs(SubsetChunks, MaxDecls),
        c \in {DT_close, DT_close_space}}

ExternalDoctypes == {DT_system, DT_public, DT_system_subset, DT_public_subset}

ExternalBefore ==
    {<<>>, <<D_space>>, <<D_comment>>, <<D_pi>>, <<D_pi_bare>>, <<D_xmldecl>>,
     <<D_open_t>>, <<D_empty_t>>}

ExternalAfter == {<<>>, <<DT_close>>, <<D_empty_t>>, <<DT_close, D_empty_t>>}

ExternalDocs ==
    {pre \o <<x>> \o post :
        pre \in ExternalBefore, x \in ExternalDoctypes, post \in ExternalAfter}

InitDoctype == InitWith(SubsetDocs \cup ExternalDocs)

SpecDoctype == InitDoctype /\ [][Next]_vars

(***************************************************************************)
(* C11.  A DOCTYPE declaration with an external identifier, SYSTEM or      *)
(* PUBLIC, makes token() fail with UnsupportedFeature(ExternalEntities),   *)
(* with an internal subset after it or without; that error is the last     *)
(* result of the document: nothing after the declaration gives a token.    *)
(***************************************************************************)
RECURSIVE SkipSpace(_)
SkipSpace(s) ==
    IF s # <<>> /\ Head(s) \in {SPACE, TAB, CR, LF} THEN SkipSpace(Tail(s)) ELSE s

(* What the arm of p's state reads its raw token from: Normal reads at the *)
(* next byte, the other states skip whitespace first.                      *)
ReadsFrom(p) == IF p.state = "Normal" THEN Unread(p) ELSE SkipSpace(Unread(p))

(* The arm of p's state reads a raw token outside the internal subset; in  *)
(* Prologue the token that Begin read ahead, when there is one, comes      *)
(* first, and so does the end tag that a self-closing tag has scheduled.   *)
OutsideSubset(p) ==
    /\ p.state \in {"Begin", "Prologue", "Normal", "Epilogue"}
    /\ ~p.auto_close.some
    /\ p.state = "Prologue" => p.last_token = NoToken

ExternalIdStep ==
    Called /\ OutsideSubset(FinalArm(parser))
           /\ (\E x \in ExternalDoctypes : starts_with(ReadsFrom(FinalArm(parser)), x))
        => /\ Last(out').err = "UnsupportedFeature(ExternalEntities)"
           /\ parser'.state # "InternalDoctype"

ExternalIdLast ==
    \A i \in DOMAIN out :
        out[i].err = "UnsupportedFeature(ExternalEntities)" => i = Len(out)

ExternalIdRefused == []ExternalIdLast /\ [][ExternalIdStep]_vars

(* `<?p i?><!DOCTYPE t PUBLIC 'a' 'b'[]><t/>`: the instruction, then the   *)
(* error.                                                                  *)
ExternalSubsetRefused ==
    /\ input = <<D_pi, DT_public_subset, DT_close, D_empty_t>>
    /\ Len(out) = 2
    /\ IsTok(out[1], "ProcInst")
    /\ out[2].err = "UnsupportedFeature(ExternalEntities)"

(***************************************************************************)
(* Documents for the start of a document: a byte order mark or the first   *)
(* byte of another one before a document, and an XML declaration of up to  *)
(* MaxKeys pseudo-attributes after the version, with or without whitespace *)
(* before each, before the rest of a document.                             *)
(***************************************************************************)
MaxKeys == 3

MaxAfterBom == 2

\* \xEF\xBB\xBF
B_bom == <<239, 187, 191>>
\* <?xml version="1.5"
X_open == <<60, 63, 120, 109, 108, 32, 118, 101, 114, 115, 105, 111, 110,
            61, 34, 49, 46, 53, 34>>
\* <?xml version = '1.0'
X_open_eq == <<60, 63, 120, 109, 108, 32, 118, 101, 114, 115, 105, 111,
               110, 32, 61, 32, 39, 49, 46, 48, 39>>
\* <?xml
X_bare == <<60, 63, 120, 109, 108>>
\* ?>
X_close == <<63, 62>>
\*  ?>
X_close_space == <<32, 63, 62>>
\*  encoding='utf-8'
K_enc == <<32, 101, 110, 99, 111, 100, 105, 110, 103, 61, 39, 117, 116,
           102, 45, 56, 39>>
\*  encoding="uTf-8"
K_enc_mixed == <<32, 101, 110, 99, 111, 100, 105, 110, 103, 61, 34, 117,
                 84, 102, 45, 56, 34>>
\* encoding='UTF-8'
K_enc_tight == <<101, 110, 99, 111, 100, 105, 110, 103, 61, 39, 85, 84, 70,
                 45, 56, 39>>
\*  encoding='latin1'
K_latin == <<32, 101, 110, 99, 111, 100, 105, 110, 103, 61, 39, 108, 97,
             116, 105, 110, 49, 39>>
\*  standalone='yes'
K_sa == <<32, 115, 116, 97, 110, 100, 97, 108, 111, 110, 101, 61, 39, 121,
          101, 115, 39>>
\* standalone="no"
K_sa_tight == <<115, 116, 97, 110, 100, 97, 108, 111, 110, 101, 61, 34,
                110, 111, 34>>
\*  x='1'
K_other == <<32, 120, 61, 39, 49, 39>>

OtherBoms == {<<BOM_00>>, <<BOM_FE>>, <<BOM_FF>>}

BomDocs ==
    {<<h>> \o d : h \in {B_bom} \cup OtherBoms, d \in ChunkSeqs(DocChunks, MaxAfterBom)}

XmlDeclKeys == {K_enc, K_enc_mixed, K_enc_tight, K_latin, K_sa, K_sa_tight, K_other}

XmlDeclOpens == {X_open, X_open_eq, X_bare}

XmlDeclRests == {<<D_empty_t>>, <<D_space, D_empty_t>>, <<D_pi, D_empty_t>>}

XmlDeclDocs ==
    {h \o <<o>> \o keys \o <<c>> \o rest :
        h \in {<<>>, <<B_bom>>},
        o \in XmlDeclOpens,
        keys \in ChunkSeqs(XmlDeclKeys, MaxKeys),
        c \in {X_close, X_close_space},
        rest \in XmlDeclRests}

InitProlog == InitWith(BomDocs \cup XmlDeclDocs)

SpecProlog == InitProlog /\ [][Next]_vars

(***************************************************************************)
(* C12.  On the first call a leading EF BB BF is skipped and the document  *)
(* gives the results it gives without the mark; a first byte 00, FE or FF  *)
(* makes the first call fail with UnsupportedEncoding, so that the error   *)
(* is the only result.                                                     *)
(***************************************************************************)
AfterMark == ParseN(from_reader_parser(Flatten(Tail(input))), Len(out))

ByteOrderMark ==
    input # <<>> =>
        /\ input[1] = B_bom => out = AfterMark
        /\ input[1] \in OtherBoms /\ out # <<>> =>
              out = <<[err |-> "UnsupportedEncoding", tok |-> NoToken]>>

(* EF BB BF `<t/>`: the three results of `<t/>`. *)
MarkSkipped ==
    /\ input = <<B_bom, D_empty_t>>
    /\ out = <<OkTok(StartTagOf(<<116>>, <<>>)), OkTok(EndTagOf(<<116>>)), OkTok(EndOfFile)>>

(***************************************************************************)
(* C13.  In the internal subset whitespace is skipped, every declaration   *)
(* and comment is consumed without a token, every processing instruction   *)
(* is emitted, and after `]` S? `>` the root element is parsed as usual:   *)
(* the results are the instructions of the subset, then the tokens of      *)
(* `<t/>` and EndOfFile.                                                   *)
(***************************************************************************)
SubsetOf(doc) == SubSeq(doc, 2, Len(doc) - 2)

Declarations == {E_ent1, E_ent2, E_ent3, E_element, E_attlist}

Instructions == {D_pi, D_pi_space, D_pi_bare}

RECURSIVE InstructionsOf(_)
InstructionsOf(chunks) ==
    IF chunks = <<>> THEN <<>>
    ELSE (IF Head(chunks) \in Instructions
          THEN <<OkTok(ProcInstOf(<<112>>, InstOf(Head(chunks))))>>
          ELSE <<>>) \o InstructionsOf(Tail(chunks))

(* The tokens of `<t/>` and EndOfFile for every further call. *)
RootTokens ==
    <<OkTok(StartTagOf(<<116>>, <<>>)), OkTok(EndTagOf(<<116>>))>>
        \o [i \in 1..MaxCalls |-> OkTok(EndOfFile)]

SubsetFlowOver(chunks) ==
    /\ input \in SubsetDocs
    /\ \A i \in DOMAIN SubsetOf(input) : SubsetOf(input)[i] \in chunks
    => IsPrefix(out, InstructionsOf(SubsetOf(input)) \o RootTokens)

SubsetFlow == SubsetFlowOver({D_space, D_comment} \cup Declarations \cup Instructions)

(***************************************************************************)
(* C14.  Every general entity declaration `<!ENTITY` S Name S EntityValue  *)
(* S? `>`, with a name of one byte or more and a value without `%` and     *)
(* `&`, is consumed without an error and without a token: a subset of such *)
(* declarations gives the tokens of the root element alone.                *)
(***************************************************************************)
GeneralEntityDecls == {E_ent1, E_ent2, E_ent3}

EntityDeclConsumed == SubsetFlowOver({D_space} \cup GeneralEntityDecls)

(***************************************************************************)
(* C15.  In an entity value character references are expanded and general  *)
(* entity references are not: `&name;` is accepted as it is written,       *)
(* whatever the name, and never fails with UnmappedEntityRef; a `%` in the *)
(* value fails with UnsupportedFeature(ParameterEntities).                 *)
(***************************************************************************)
ValuedDecls == {E_charref, E_amp, E_unknown, E_percent}

(* Of `<!ENTITY ee "...">`: the quoted literal, and the text in the quotes. *)
LiteralOf(c) == SubSeq(c, 13, Len(c) - 1)

TextOf(c) == SubSeq(c, 14, Len(c) - 2)

Unexpanded(c) == IF c = E_charref THEN <<65>> ELSE TextOf(c)

EntityValueOf(c) ==
    LET r == entity_value(from_reader_parser(LiteralOf(c)))
    IN  IF c = E_percent THEN r.err = "UnsupportedFeature(ParameterEntities)"
        ELSE r.err = "" /\ r.v = Unexpanded(c)

EntityValueText ==
    /\ \A i \in DOMAIN input : input[i] \in ValuedDecls => EntityValueOf(input[i])
    /\ SubsetFlowOver({E_charref, E_amp, E_unknown})
    /\ input \in SubsetDocs /\ out # <<>> /\ input[2] = E_percent =>
           out = <<[err |-> "UnsupportedFeature(ParameterEntities)", tok |-> NoToken]>>

(***************************************************************************)
(* C16.  In the internal subset a parameter entity declaration             *)
(* (`<!ENTITY %`) and a parameter entity reference (`%name;`) fail with    *)
(* UnsupportedFeature(ParameterEntities) and a `<!NOTATION` declaration    *)
(* fails with UnsupportedFeature(Notations); the call returns no token and *)
(* the parser does not go back to Prologue.                                *)
(***************************************************************************)
SubsetReads(x) ==
    /\ FinalArm(parser).state = "InternalDoctype"
    /\ starts_with(SkipSpace(Unread(FinalArm(parser))), x)

UnsupportedStep ==
    Called =>
        /\ SubsetReads(E_pe_decl) \/ SubsetReads(E_pe_ref) =>
              /\ Last(out') =
                     [err |-> "UnsupportedFeature(ParameterEntities)", tok |-> NoToken]
              /\ parser'.state = "InternalDoctype"
        /\ SubsetReads(E_notation) =>
              /\ Last(out') = [err |-> "UnsupportedFeature(Notations)", tok |-> NoToken]
              /\ parser'.state = "InternalDoctype"

Unsupported == {E_pe_decl, E_pe_ref, E_notation}

Silent == {D_space, D_comment, E_ent2, E_ent3, E_element, E_attlist}

UnsupportedError(x) ==
    IF x = E_notation THEN "UnsupportedFeature(Notations)"
    ELSE "UnsupportedFeature(ParameterEntities)"

(* The first call on a subset that has only silent declarations before an *)
(* unsupported one.                                                        *)
UnsupportedFirst ==
    \A k \in DOMAIN input :
        /\ input \in SubsetDocs /\ out # <<>>
        /\ input[k] \in Unsupported
        /\ \A i \in 2..(k - 1) : input[i] \in Silent
        => /\ out = <<[err |-> UnsupportedError(input[k]), tok |-> NoToken]>>
           /\ parser.state = "InternalDoctype"

UnsupportedDeclarations == []UnsupportedFirst /\ [][UnsupportedStep]_vars

(* `<!DOCTYPE t [<!--c--><!NOTATION n SYSTEM "a">]><t/>` *)
NotationRefused ==
    /\ input = <<DT_open, D_comment, E_notation, DT_close, D_empty_t>>
    /\ out = <<[err |-> "UnsupportedFeature(Notations)", tok |-> NoToken]>>
    /\ parser.state = "InternalDoctype"

(***************************************************************************)
(* C17.  An XML declaration at the very start of a document, after a byte  *)
(* order mark or without one, is consumed silently: the results are those  *)
(* of the document without it.  Its encoding is compared without regard to *)
(* letter case: `utf-8` in any case is accepted, every other encoding      *)
(* fails with UnsupportedEncoding.                                         *)
(***************************************************************************)
DeclAt == IF input # <<>> /\ input[1] = B_bom THEN 2 ELSE 1

HasDecl == Len(input) >= DeclAt /\ input[DeclAt] \in XmlDeclOpens

RECURSIVE KeysFrom(_, _)
KeysFrom(doc, i) ==
    IF i <= Len(doc) /\ doc[i] \in XmlDeclKeys
    THEN <<doc[i]>> \o KeysFrom(doc, i + 1)
    ELSE <<>>

DeclKeys == KeysFrom(input, DeclAt + 1)

AfterDecl == SubSeq(input, DeclAt + Len(DeclKeys) + 2, Len(input))

Spaced(k) == k \in {K_enc, K_enc_mixed, K_latin, K_sa, K_other}

Kind(k) ==
    IF k \in {K_enc, K_enc_mixed, K_enc_tight, K_latin} THEN "encoding"
    ELSE IF k \in {K_sa, K_sa_tight} THEN "standalone"
    ELSE "other"

Kinds(keys) == [i \in DOMAIN keys |-> Kind(keys[i])]

(* version, then encoding if any, then standalone if any, each after *)
(* whitespace.                                                        *)
InOrder(keys) ==
    /\ \A i \in DOMAIN keys : Spaced(keys[i])
    /\ Kinds(keys) \in {<<>>, <<"encoding">>, <<"standalone">>,
                        <<"encoding", "standalone">>}

WellFormedDecl == HasDecl /\ input[DeclAt] # X_bare /\ InOrder(DeclKeys)

XmlDeclSilent ==
    WellFormedDecl =>
        IF \E i \in DOMAIN DeclKeys : DeclKeys[i] = K_latin
        THEN out # <<>> => out = <<[err |-> "UnsupportedEncoding", tok |-> NoToken]>>
        ELSE out = ParseN(from_reader_parser(Flatten(AfterDecl)), Len(out))

(* BOM `<?xml version="1.5" encoding="uTf-8" standalone='yes' ?> <t/>` *)
XmlDeclMixedCase ==
    /\ input = <<B_bom, X_open, K_enc_mixed, K_sa, X_close_space, D_space, D_empty_t>>
    /\ Len(out) = 3
    /\ IsEof(out[3])

(***************************************************************************)
(* C18.  The pseudo-attributes of an XML declaration come in the order     *)
(* version, encoding, standalone, the last two optional and each after     *)
(* whitespace: an encoding after standalone, a second encoding or          *)
(* standalone, a key without whitespace before it, and any other key fail  *)
(* with MalformedXmlDecl.                                                  *)
(***************************************************************************)
(* The target is `xml`: no name byte follows it. *)
TargetIsXml ==
    HasDecl /\ ~(input[DeclAt] = X_bare /\ DeclKeys # <<>> /\ ~Spaced(DeclKeys[1]))

XmlDeclOrder ==
    TargetIsXml /\ (input[DeclAt] = X_bare \/ ~InOrder(DeclKeys)) /\ out # <<>> =>
        out = <<[err |-> "MalformedXmlDecl", tok |-> NoToken]>>

(* `<?xml version = '1.0' standalone='yes' encoding='utf-8'?><t/>` *)
EncodingAfterStandalone ==
    /\ input = <<X_open_eq, K_sa, K_enc, X_close, D_empty_t>>
    /\ out = <<[err |-> "MalformedXmlDecl", tok |-> NoToken]>>

(***************************************************************************)
(* Documents for references: an element whose text is up to MaxRefs        *)
(* character references, well-formed or not, and a start tag whose         *)
(* attribute value is up to MaxRefs references, quotes and other bytes.    *)
(***************************************************************************)
MaxRefs == 2

\* &#xE9;
R_two == <<38, 35, 120, 69, 57, 59>>
\* &#x20AC;
R_three == <<38, 35, 120, 50, 48, 65, 67, 59>>
\* &#x10FFFF;
R_four == <<38, 35, 120, 49, 48, 70, 70, 70, 70, 59>>
\* &#;
R_empty == <<38, 35, 59>>
\* &#x;
R_empty_hex == <<38, 35, 120, 59>>
\* &#6A;
R_bad_dec == <<38, 35, 54, 65, 59>>
\* &#xG;
R_bad_hex == <<38, 35, 120, 71, 59>>
\* &#65
R_no_semi == <<38, 35, 54, 53>>
\* &#x110000;
R_big == <<38, 35, 120, 49, 49, 48, 48, 48, 48, 59>>
\* &#xD800;
R_surrogate == <<38, 35, 120, 68, 56, 48, 48, 59>>
\* &#4294967296;
R_overflow == <<38, 35, 52, 50, 57, 52, 57, 54, 55, 50, 57, 54, 59>>
\* <t a="
A_open_quot == <<60, 116, 32, 97, 61, 34>>
\* <t a = '
A_open_apos == <<60, 116, 32, 97, 32, 61, 32, 39>>
\* ">
A_close_quot == <<34, 62>>
\* ' >
A_close_apos == <<39, 32, 62>>

ValidCharRefs == {T_dec, T_hex, R_two, R_three, R_four}

InvalidCharRefs ==
    {R_empty, R_empty_hex, R_bad_dec, R_bad_hex, R_no_semi, R_big, R_surrogate,
     R_overflow}

CharRefDocs ==
    {<<D_open_t>> \o body \o <<D_close_t>> :
        body \in ChunkSeqs(ValidCharRefs \cup InvalidCharRefs, MaxRefs)}

AttValueChunks ==
    {T_dec, T_hex, T_amp, T_lt, T_quot, T_apos, <<97>>, <<QUOT>>, <<APOS>>, <<LT>>,
     <<GT>>, <<RBRACKET>>}

AttValueDocs ==
    {<<A_open_quot>> \o body \o <<A_close_quot, D_close_t>> :
        body \in ChunkSeqs(AttValueChunks, MaxRefs)}
    \cup
    {<<A_open_apos>> \o body \o <<A_close_apos, D_close_t>> :
        body \in ChunkSeqs(AttValueChunks, MaxRefs)}

InitRefs == InitWith(CharRefDocs \cup AttValueDocs)

SpecRefs == InitRefs /\ [][Next]_vars

(***************************************************************************)
(* C19.  A character reference that is not well-formed or whose value is   *)
(* out of range fails with MalformedCharRef: no digits (`&#;`, `&#x;`), a  *)
(* digit that the radix does not have, no `;`, a value above 0x10FFFF, a   *)
(* surrogate.  A valid one appends the UTF-8 encoding of its code point,   *)
(* and nothing else, to the text.                                          *)
(***************************************************************************)
IsCharRefDoc == input \in CharRefDocs /\ Len(input) >= 3

Utf8Of(c) ==
    IF c = T_dec \/ c = T_hex THEN <<65>>
    ELSE IF c = R_two THEN <<195, 169>>
    ELSE IF c = R_three THEN <<226, 130, 172>>
    ELSE <<244, 143, 191, 191>>

RECURSIVE Utf8OfAll(_)
Utf8OfAll(chunks) ==
    IF chunks = <<>> THEN <<>> ELSE Utf8Of(Head(chunks)) \o Utf8OfAll(Tail(chunks))

CharRefsOver(invalid) ==
    IsCharRefDoc /\ Len(out) >= 2
    /\ (\A i \in DOMAIN Body(input) : Body(input)[i] \in ValidCharRefs \cup invalid)
    => IF \E i \in DOMAIN Body(input) : Body(input)[i] \in invalid
       THEN out[2] = [err |-> "MalformedCharRef", tok |-> NoToken]
       ELSE out[2] = OkTok(CharDataOf(Utf8OfAll(Body(input))))

CharRefChecked == CharRefsOver(InvalidCharRefs)

(***************************************************************************)
(* C20.  An attribute value ends at the quote character that opened it and *)
(* at no other: the other quote character is text, references are expanded *)
(* as they are in character data, so that the quote of an expanded         *)
(* `&quot;` or `&apos;` does not end the value, Attr.value is the expanded *)
(* text without the quotes, and a `<` in the value fails with              *)
(* MalformedAttValue.                                                      *)
(***************************************************************************)
IsAttValueDoc == input \in AttValueDocs

OpeningQuote == IF input[1] = A_open_quot THEN <<QUOT>> ELSE <<APOS>>

AttBody == SubSeq(input, 2, Len(input) - 2)

(* The value is closed by the closing chunk, not inside the body. *)
ClosedAtEnd == \A i \in DOMAIN AttBody : AttBody[i] # OpeningQuote

AttValueExpanded ==
    IsAttValueDoc /\ ClosedAtEnd /\ out # <<>> =>
        IF \E i \in DOMAIN AttBody : AttBody[i] = <<LT>>
        THEN out[1] = [err |-> "MalformedAttValue", tok |-> NoToken]
        ELSE out[1] = OkTok(StartTagOf(<<116>>, <<Attr(<<97>>, Denoted(AttBody))>>))

(* `<t a="'&quot;"></t>`: the value is `'"`. *)
AttValueQuotes ==
    /\ input = <<A_open_quot, <<APOS>>, T_quot, A_close_quot, D_close_t>>
    /\ Len(out) = 2
    /\ out[1] = OkTok(StartTagOf(<<116>>, <<Attr(<<97>>, <<39, 34>>)>>))
    /\ out[2] = OkTok(EndTagOf(<<116>>))

(***************************************************************************)
(* Documents for `]]>` in character data: an element whose text is up to   *)
(* MaxBrackets pieces, each `]` or `>` as a byte or as a reference, or a   *)
(* letter.                                                                 *)
(***************************************************************************)
MaxBrackets == 4

BracketChunks == {<<RBRACKET>>, <<GT>>, T_rbracket, T_gt, <<97>>}

BracketDocs ==
    {<<D_open_t>> \o body \o <<D_close_t>> :
        body \in ChunkSeqs(BracketChunks, MaxBrackets)}

InitCharData == InitWith(BracketDocs)

SpecCharData == InitCharData /\ [][Next]_vars

(***************************************************************************)
(* C21.  Character data with the literal bytes `]]>` in it fails with      *)
(* MalformedCharData, and no CharData token is returned for that text.     *)
(***************************************************************************)
IsBracketDoc == input \in BracketDocs

HasLiteralEnd == Contains(Flatten(Body(input)), S_CDEnd)

LiteralEndRefused ==
    IsBracketDoc /\ HasLiteralEnd =>
        /\ Len(out) <= 2
        /\ Len(out) = 2 => out[2] = [err |-> "MalformedCharData", tok |-> NoToken]
        /\ \A i \in DOMAIN out : ~IsTok(out[i], "CharData")

(* `<t>a]]>></t>` *)
LiteralEndAfterText ==
    /\ input = <<D_open_t, <<97>>, <<RBRACKET>>, <<RBRACKET>>, <<GT>>, D_close_t>>
    /\ Len(out) = 2
    /\ IsTok(out[1], "StartTag")
    /\ out[2].err = "MalformedCharData"

(***************************************************************************)
(* C22.  The bytes pushed back are returned before the source is read      *)
(* again; bytes pushed with unget come back last in, first out; a sequence *)
(* pushed with unget_buf comes back in its own order; and whatever the     *)
(* interleaving of next, unget and unget_buf, the source goes on where it  *)
(* stopped: no byte of it is lost and none is read twice.                  *)
(***************************************************************************)
(* The bytes that n calls of next() return, starting from stream b. *)
RECURSIVE NextN(_, _)
NextN(b, n) ==
    IF n = 0 THEN <<>>
    ELSE <<Bytes_next(b).b>> \o NextN(Bytes_next(b).s, n - 1)

RECURSIVE AfterN(_, _)
AfterN(b, n) == IF n = 0 THEN b ELSE AfterN(Bytes_next(b).s, n - 1)

Source(b) == [b EXCEPT !.buf = <<>>]

(* A read while bytes are pushed back returns the last one pushed and     *)
(* leaves the source and what was pushed before it as they are.            *)
DrainedFirst ==
    Len(got') = Len(got) + 1 /\ reader.buf # <<>> =>
        /\ Last(got').b = Last(reader.buf)
        /\ reader' = [reader EXCEPT !.buf = Front(reader.buf)]

(* Pushing one byte and reading gives the byte and the stream as it was.  *)
UngetUndone ==
    Len(reader'.buf) = Len(reader.buf) + 1 =>
        /\ Bytes_next(reader').b = Last(reader'.buf)
        /\ Bytes_next(reader').s = reader

(* Wherever the stream is, a pushed sequence is read in its order, and    *)
(* then the stream is as it was.                                          *)
UngetBufInOrder ==
    /\ NextN(unget_buf(reader, PushBuf), Len(PushBuf)) = PushBuf
    /\ AfterN(unget_buf(reader, PushBuf), Len(PushBuf)) = reader

(* What was read from the source is the source up to where it stands. *)
SourceInStep ==
    FromSource(got) = Normalize(SubSeq(reader.src, 1, reader.pos - 1))

PushBack ==
    /\ [](UngetBufInOrder /\ SourceInStep)
    /\ [][DrainedFirst /\ UngetUndone]_vars

(* `a\n` read with a sequence pushed after the `a`: a, c, \n, then the    *)
(* `\n` of the source and its end.                                        *)
PushedThenSource ==
    /\ reader.src = <<97, LF>>
    /\ got = <<[b |-> 97, pushed |-> FALSE], [b |-> 99, pushed |-> TRUE],
               [b |-> LF, pushed |-> TRUE], [b |-> LF, pushed |-> FALSE],
               [b |-> NoByte, pushed |-> FALSE]>>

(***************************************************************************)
(* Documents for comments: a comment or none before the root element, in   *)
(* the internal subset, in the root element and after it; the comments are *)
(* well-formed or have a `--` that no `>` follows.                         *)
(***************************************************************************)
\* <!-- c -->
C_spaced == <<60, 33, 45, 45, 32, 99, 32, 45, 45, 62>>
\* <!--a-b-->
C_dash == <<60, 33, 45, 45, 97, 45, 98, 45, 45, 62>>
\* <!---->
C_empty == <<60, 33, 45, 45, 45, 45, 62>>
\* <!--a--b-->
C_double == <<60, 33, 45, 45, 97, 45, 45, 98, 45, 45, 62>>
\* <!--a--->
C_triple == <<60, 33, 45, 45, 97, 45, 45, 45, 62>>

GoodComments == {D_comment, C_spaced, C_dash, C_empty}

BadComments == {C_double, C_triple}

CommentOrNone == {<<>>} \cup {<<c>> : c \in GoodComments \cup BadComments}

SubsetOrNone == {<<>>} \cup {<<DT_open>> \o c \o <<DT_close>> : c \in CommentOrNone}

CommentDocs ==
    {c1 \o dt \o <<D_open_t>> \o c3 \o <<D_close_t>> \o c4 :
        c1 \in CommentOrNone, dt \in SubsetOrNone,
        c3 \in CommentOrNone, c4 \in CommentOrNone}

InitComments == InitWith(CommentDocs)

SpecComments == InitComments /\ [][Next]_vars

(***************************************************************************)
(* C23.  A comment gives no token in any state, the prolog, the internal   *)
(* subset, the content of an element and the epilog: `<t><!-- c --></t>`   *)
(* gives StartTag, EndTag and EndOfFile alone.  A comment ends at its      *)
(* first `--`; when no `>` follows it at once token() fails with           *)
(* MalformedComment.                                                       *)
(***************************************************************************)
RECURSIVE WithoutComments(_)
WithoutComments(chunks) ==
    IF chunks = <<>> THEN [i \in 1..MaxCalls |-> OkTok(EndOfFile)]
    ELSE IF Head(chunks) \in BadComments
    THEN <<[err |-> "MalformedComment", tok |-> NoToken]>>
    ELSE IF Head(chunks) = D_open_t
    THEN <<OkTok(StartTagOf(<<116>>, <<>>))>> \o WithoutComments(Tail(chunks))
    ELSE IF Head(chunks) = D_close_t
    THEN <<OkTok(EndTagOf(<<116>>))>> \o WithoutComments(Tail(chunks))
    ELSE WithoutComments(Tail(chunks))

CommentsSilent == input \in CommentDocs => IsPrefix(out, WithoutComments(input))

(* `<t><!-- c --></t>` *)
CommentInElement ==
    /\ input = <<D_open_t, C_spaced, D_close_t>>
    /\ out = <<OkTok(StartTagOf(<<116>>, <<>>)), OkTok(EndTagOf(<<116>>)),
               OkTok(EndOfFile)>>


(***************************************************************************)
(* C24.  As long as no call of token() has returned an error, the tag      *)
(* stack is non-empty exactly in the state Normal: it is empty in Begin,   *)
(* Prologue, InternalDoctype, Epilogue and End.  It holds the start tags   *)
(* returned so far that no end tag has matched, so the pop of an end tag   *)
(* read in Normal never meets an empty stack.  A call moves the parser     *)
(* from Normal to Epilogue exactly when it returns the end tag that        *)
(* matches the only name left on the stack, the root's, and empties it.    *)
(***************************************************************************)
StackStates == {"Begin", "Prologue", "InternalDoctype", "Normal", "Epilogue", "End"}

StackMatchesState ==
    ~Failed =>
        /\ parser.state \in StackStates
        /\ parser.tags # <<>> <=> parser.state = "Normal"
        /\ parser.tags = Unmatched(out)

PopsRoot(res) ==
    /\ IsTok(res, "EndTag")
    /\ Len(parser.tags) = 1
    /\ res.tok.name = parser.tags[1]

StackStep ==
    LET res == Last(out')
    IN  /\ res.err # "panic"
        /\ res.err = "" /\ parser.state = "Normal" =>
              /\ parser'.state = "Epilogue" <=> PopsRoot(res)
              /\ parser'.state = "Epilogue" => parser'.tags = <<>>
              /\ parser'.state # "Epilogue" => parser'.state = "Normal"
        /\ res.err = "" /\ parser.state # "Normal" /\ parser'.state = "Epilogue" =>
              parser.state = "Epilogue"

StateStackInvariant == []StackMatchesState /\ [][Called => StackStep]_vars

(* The inner element was closed in Normal with the root still open, and    *)
(* closing the root emptied the stack and left Normal.                     *)
RootClosedAfterInner ==
    /\ input = <<D_open_t, D_empty_t, D_close_t>>
    /\ Len(out) = 4
    /\ IsTok(out[3], "EndTag") /\ IsTok(out[4], "EndTag")
    /\ parser.state = "Epilogue" /\ parser.tags = <<>>


(***************************************************************************)
(* Documents cut short.  Three well-formed documents, with a byte order    *)
(* mark, an XML declaration, a document type declaration with and without  *)
(* an internal subset, comments, processing instructions, nested elements  *)
(* and text, are cut after every chunk and inside every chunk, next to     *)
(* the documents of Spec.                                                  *)
(***************************************************************************)
CutLong ==
    <<B_bom, D_xmldecl, D_space, DT_open, D_comment, DT_close, D_comment,
      D_open_attr, D_text, D_empty_t, D_close_t, D_space, D_comment, D_pi,
      D_space>>

CutShort == <<D_comment, D_doctype, D_empty_t, D_comment, D_pi_space>>

CutSpaced == <<D_space, D_pi, D_open_t, D_cdata, D_close_t>>

CutBases == {CutLong, CutShort, CutSpaced}

Cuts(d) ==
    {SubSeq(d, 1, k) : k \in 0..Len(d)} \cup
    UNION {{SubSeq(d, 1, k - 1) \o <<SubSeq(d[k], 1, n)>> : n \in 1..(Len(d[k]) - 1)} :
           k \in 1..Len(d)}

CutDocs == UNION {Cuts(d) : d \in CutBases}

InitCut == InitWith(CutDocs \cup ChunkSeqs(DocChunks, MaxFrags))

SpecCut == InitCut /\ [][Next]_vars


(***************************************************************************)
(* C25.  EndOfFile is returned only after a root element was opened and    *)
(* closed, with every start tag matched, when the input is exhausted and   *)
(* nothing but whitespace, comments and processing instructions follows    *)
(* the end of the root element.  A document that ends anywhere else never  *)
(* gives EndOfFile, and a well-formed document cut short before the end    *)
(* of its root element or inside a comment or processing instruction of    *)
(* its epilogue fails with UnexpectedEof; the empty document and a         *)
(* document of whitespace are among them.                                  *)
(***************************************************************************)
ClosingChunks == {D_close_t, D_close_u, D_empty_t, D_empty_attr}

EpilogueChunks == {D_space, D_comment, D_pi, D_pi_space, D_pi_bare}

EndsAfterRoot(chunks) ==
    \E k \in DOMAIN chunks :
        /\ chunks[k] \in ClosingChunks
        /\ \A j \in (k + 1)..Len(chunks) : chunks[j] \in EpilogueChunks

RootClosedBefore(i) ==
    /\ \E j \in 1..(i - 1) : IsTok(out[j], "StartTag")
    /\ \E j \in 1..(i - 1) : IsTok(out[j], "EndTag")
    /\ Unmatched(SubSeq(out, 1, i - 1)) = <<>>

EofOnlyAfterRoot ==
    /\ \A i \in DOMAIN out : IsEof(out[i]) => RootClosedBefore(i) /\ EndsAfterRoot(input)
    /\ out # <<>> /\ IsEof(Last(out)) => Unread(parser) = <<>> /\ parser.state = "End"

CutShortFails ==
    /\ input \in CutDocs
    /\ ~EndsAfterRoot(input)
    /\ Failed \/ Len(out) = MaxCalls
    => Last(out).err = "UnexpectedEof"

EndOfFileOnlyAtEnd == EofOnlyAfterRoot /\ CutShortFails

(* The input ended inside a comment after the root element. *)
EpilogueCommentCut ==
    /\ input = SubSeq(CutShort, 1, 3) \o <<SubSeq(D_comment, 1, 5)>>
    /\ Len(out) = 3
    /\ IsTok(out[1], "StartTag") /\ IsTok(out[2], "EndTag")
    /\ out[3].err = "UnexpectedEof"
    /\ parser.state = "Epilogue"


(***************************************************************************)
(* C26.  When token() reaches EndOfFile without an error, the tokens       *)
(* returned before it are well nested: every EndTag closes the latest      *)
(* StartTag still open and has its name, exactly one element was opened    *)
(* at the top level and it is closed, every CharData lies inside it, and   *)
(* no StartTag, EndTag or CharData follows its EndTag.                     *)
(***************************************************************************)
NestStart == [open |-> <<>>, roots |-> 0, ok |-> TRUE]

NestStep(s, r) ==
    IF IsTok(r, "StartTag")
    THEN [s EXCEPT !.open = Append(@, r.tok.name),
                   !.ok = @ /\ (s.open # <<>> \/ s.roots = 0)]
    ELSE IF IsTok(r, "EndTag")
    THEN [open |-> IF s.open = <<>> THEN <<>> ELSE Front(s.open),
          roots |-> IF Len(s.open) = 1 THEN s.roots + 1 ELSE s.roots,
          ok |-> s.ok /\ s.open # <<>> /\ Last(s.open) = r.tok.name]
    ELSE IF IsTok(r, "CharData")
    THEN [s EXCEPT !.ok = @ /\ s.open # <<>>]
    ELSE [s EXCEPT !.ok = @ /\ r.err = ""]

RECURSIVE Nest(_)
Nest(h) == IF h = <<>> THEN NestStart ELSE NestStep(Nest(Front(h)), Last(h))

WellNested ==
    \A i \in DOMAIN out : IsEof(out[i]) =>
        LET s == Nest(SubSeq(out, 1, i - 1))
        IN  s.ok /\ s.open = <<>> /\ s.roots = 1

(* A root element with text and an element nested in it, followed by a    *)
(* processing instruction, was read to the end.                            *)
NestedReadToEnd ==
    /\ input = CutLong
    /\ Len(out) = 7
    /\ IsTok(out[1], "StartTag") /\ IsTok(out[2], "CharData")
    /\ IsTok(out[3], "StartTag") /\ IsTok(out[4], "EndTag")
    /\ IsTok(out[5], "EndTag") /\ IsTok(out[6], "ProcInst")
    /\ IsEof(out[7])


(***************************************************************************)
(* C27.  When the document does not begin with an XML declaration, the     *)
(* raw token that Begin reads ahead is handed to Prologue in the same call *)
(* and taken there once: no call returns with a token still buffered, and  *)
(* the results are those of the same document preceded by a space, where   *)
(* Begin reads no token ahead.  A byte order mark stays in front of the    *)
(* space.                                                                  *)
(***************************************************************************)
Marked == IsPrefix(B_bom, Flatten(input))

Unmarked ==
    IF Marked THEN SubSeq(Flatten(input), Len(B_bom) + 1, Len(Flatten(input)))
    ELSE Flatten(input)

BeginsWithXmlDecl == IsPrefix(D_xmldecl, Unmarked)

AfterSpace ==
    from_reader_parser((IF Marked THEN B_bom ELSE <<>>) \o D_space \o Unmarked)

LookaheadReplayed ==
    /\ parser.last_token = NoToken
    /\ ~BeginsWithXmlDecl => out = ParseN(AfterSpace, Len(out))

(* The lookahead step itself: Begin on a document that starts with a token *)
(* other than the XML declaration ends with that token buffered, and       *)
(* on the same document after a space with none.                           *)
LookaheadTaken ==
    LET b == token_Begin(from_reader_parser(Flatten(input)))
        s == token_Begin(AfterSpace)
    IN  /\ b.err = "" /\ b.p.last_token # NoToken
        /\ s.err = "" /\ s.p.last_token = NoToken

(* A processing instruction at the very start was read ahead by Begin and  *)
(* returned once, followed by the root element.                            *)
LookaheadReturnedOnce ==
    /\ input = <<D_pi, D_empty_t>>
    /\ LookaheadTaken
    /\ Len(out) = 4
    /\ out[1] = OkTok(ProcInstOf(<<112>>, <<105>>))
    /\ IsTok(out[2], "StartTag") /\ IsTok(out[3], "EndTag") /\ IsEof(out[4])

(***************************************************************************)
(* C28.  The line number starts at 1 and, once the byte after a logical    *)
(* newline has been asked of the source, is 1 plus the number of logical   *)
(* newlines read from the source; `\r\n` counts once; bytes pushed back    *)
(* and read again, a `\n` among them, do not change it.                    *)
(***************************************************************************)
RECURSIVE CountLF(_)
CountLF(s) ==
    IF s = <<>> THEN 0 ELSE (IF Head(s) = LF THEN 1 ELSE 0) + CountLF(Tail(s))

(* newline: a logical newline was read and no byte was asked of the       *)
(* source since.                                                          *)
LineCounted ==
    /\ location(reader) >= 1
    /\ location(reader) + (IF reader.newline THEN 1 ELSE 0)
           = 1 + CountLF(FromSource(got))
    /\ got = <<>> => location(reader) = 1

PushedKeepsLine ==
    reader.buf # <<>> \/ Len(reader'.buf) > Len(reader.buf) =>
        /\ location(reader') = location(reader)
        /\ reader'.newline = reader.newline

LineCounting == []LineCounted /\ [][PushedKeepsLine]_vars

(* `\r\n\n` read to its end with a pushed `\n` read in between: line 3. *)
ThirdLine ==
    /\ reader.src = <<CR, LF, LF>>
    /\ SourceEnded
    /\ \E i \in DOMAIN got : got[i].pushed /\ got[i].b = LF
    /\ location(reader) = 3


(***************************************************************************)
(* token() one iteration at a time.  Each step runs the arm of the         *)
(* parser's state once: an arm that ends without returning leaves the      *)
(* parser for the next iteration, an arm that returns ends the call with   *)
(* its token or error.  The loop has no other exit and no wait, so an      *)
(* iteration that can run does run.                                        *)
(***************************************************************************)
Iterated(r) ==
    IF r.err = "" /\ r.v = ContinueTok
    THEN parser' = r.p /\ UNCHANGED <<input, out, item, reader, got>>
    ELSE Returned(r, NotCalled)

Iteration == CanCall /\ Iterated(token_arm(parser))

SpecLoop == InitCut /\ [][Iteration]_vars /\ WF_vars(Iteration)


(***************************************************************************)
(* C29 as amended.  Wherever token()'s loop is about to run, the iteration *)
(* either returns, or leaves fewer bytes unread, or leaves the state       *)
(* Begin, or takes the token that Begin had read ahead out of last_token.  *)
(* Every iteration that does not fail, returning or not, makes Variant     *)
(* smaller until the state is End.  Variant is a natural number, so a call *)
(* returns after at most Variant(parser) iterations and repeated calls     *)
(* reach EndOfFile or an error after at most as many calls; the caller,    *)
(* who stops at an error, is never left with all its calls answered and    *)
(* neither an error nor EndOfFile among the answers.                       *)
(***************************************************************************)
Flag(b) == IF b THEN 1 ELSE 0

Variant(p) ==
    16 * Len(Unread(p)) + 4 * Flag(p.state = "Begin") + 2 * Flag(p.last_token # NoToken)
    + Flag(p.auto_close.some) + Flag(p.state # "End")

Continues(r) == r.err = "" /\ r.v = ContinueTok

Reads(q) == Len(Unread(q)) < Len(Unread(parser))

LeavesBegin(q) == parser.state = "Begin" /\ q.state # "Begin"

TakesLookahead(q) == parser.last_token # NoToken /\ q.last_token = NoToken

IterationProgress(lookahead) ==
    CanCall =>
        LET r == token_arm(parser)
        IN  /\ Continues(r) =>
                Reads(r.p) \/ LeavesBegin(r.p) \/ (lookahead /\ TakesLookahead(r.p))
            /\ r.err = "" /\ parser.state # "End" => Variant(r.p) < Variant(parser)

AllAnswered ==
    Len(out) = MaxCalls => Failed \/ \E i \in DOMAIN out : IsEof(out[i])

Termination == IterationProgress(TRUE) /\ AllAnswered

(* The comment that Begin read ahead was taken by Prologue and dropped,    *)
(* with the root element still unread and no token returned so far.        *)
LookaheadCommentDropped ==
    /\ input = <<D_comment, D_empty_t>>
    /\ out = <<>>
    /\ parser.state = "Prologue" /\ parser.last_token = NoToken
    /\ Unread(parser) = D_empty_t

(* C29 as stated: an iteration that does not return consumes a source byte *)
(* or leaves Begin.                                                        *)
TerminationAsStated == IterationProgress(FALSE) /\ AllAnswered

(***************************************************************************)
(* C30.  Character data whose bytes do not have `]]>` in them never fails  *)
(* with MalformedCharData: when a `]` or the `>` comes from a reference,   *)
(* as in `&#93;]>` and `]]&gt;`, the text is accepted and is one CharData  *)
(* token.                                                                  *)
(***************************************************************************)
NoLiteralEndAccepted ==
    IsBracketDoc /\ ~HasLiteralEnd /\ Body(input) # <<>> /\ Len(out) >= 2 =>
        /\ out[2].err # "MalformedCharData"
        /\ out[2] = OkTok(CharDataOf(Denoted(Body(input))))

====
